---- MODULE Spec2Model ----
(***************************************************************************)
(* A model of sarpy/io/phase_history/cphd.py: the CPHD version 1.0 writer  *)
(* (CPHDWriter1_0) and the CPHD readers (CPHDReader1_0, CPHDReader0_3).    *)
(*                                                                         *)
(* The file on disk is a function from absolute byte offsets to bytes.     *)
(* A numpy.memmap is a record [offset, shape, dtype] over those bytes; a   *)
(* numpy.ndarray handed to the writer is a record [ndim, shape, dtype,     *)
(* cells].  A python None is the empty tuple and a present value x is the  *)
(* one-element tuple <<x>>.  A channel / support reference (int | str) is  *)
(* a tagged record [t |-> "int" | "str", i |-> ..., s |-> ...].            *)
(***************************************************************************)
EXTENDS Integers, Sequences, FiniteSets, TLC

VARIABLES
    pc,                \* "new" | "open" | "failed": position of the writer object
    file,              \* the destination file: [exists, hdr, xml, bytes]
    cphd_meta,         \* CPHDWriter1_0._cphd_meta (None before construction)
    cphd_header,       \* CPHDWriter1_0._cphd_header
    pvp_memmaps,       \* CPHDWriter1_0._pvp_memmaps      identifier -> memmap
    signal_memmaps,    \* CPHDWriter1_0._signal_memmaps   identifier -> memmap
    support_memmaps,   \* CPHDWriter1_0._support_memmaps  identifier -> memmap
    channel_map,       \* CPHDWriter1_0._channel_map      identifier -> ordinal
    support_map,       \* CPHDWriter1_0._support_map      identifier -> ordinal
    writing_state,     \* CPHDWriter1_0._writing_state
    closed,            \* CPHDWriter1_0._closed
    last,              \* the last call made on the writer and how it ended
    close_called,      \* history: close() has been called on the writer
    covered,           \* history: the cells the single writes that returned cover
    threads,           \* two threads that call writes on the one writer
    reader,            \* the CPHDReader object opened on the file
    result             \* the last read made on the reader and what it returned

wvars == <<pc, file, cphd_meta, cphd_header, pvp_memmaps, signal_memmaps,
           support_memmaps, channel_map, support_map, writing_state, closed>>

vars == <<pc, file, cphd_meta, cphd_header, pvp_memmaps, signal_memmaps,
          support_memmaps, channel_map, support_map, writing_state, closed, last,
          close_called, covered, threads, reader, result>>

\* the writer and its history
wside == <<pc, cphd_meta, cphd_header, pvp_memmaps, signal_memmaps, support_memmaps,
           channel_map, support_map, writing_state, closed, last, close_called, covered,
           threads>>

\* the reader and its history
rside == <<reader, result>>

-----------------------------------------------------------------------------
(* Bounds of the model. *)

\* the largest row / column count of an array handed to a write, and the
\* largest start index a write is called with
MaxRows == 2
\* a written counter is followed up to this many rows / pixels past its total
MaxExcess == 1

-----------------------------------------------------------------------------
(* Python values. *)

None == <<>>
Some(x) == <<x>>
IsNone(o) == o = <<>>
The(o) == o[1]

IntRef(n) == [t |-> "int", i |-> n, s |-> ""]
StrRef(x) == [t |-> "str", i |-> 0, s |-> x]

NoExc == "none"

Max(a, b) == IF a >= b THEN a ELSE b

RECURSIVE SumSeq(_)
SumSeq(q) == IF q = <<>> THEN 0 ELSE Head(q) + SumSeq(Tail(q))

Range(q) == {q[i] : i \in 1..Len(q)}

\* the empty dict
EmptyMap == [x \in {} |-> 0]

\* d[k] = v of a python dict
Put(d, k, v) == [x \in (DOMAIN d) \cup {k} |-> IF x = k THEN v ELSE d[x]]

-----------------------------------------------------------------------------
(* numpy dtypes, arrays and memory maps. *)

\* a structured or scalar dtype: its item size and its fields in offset order
DType(itemsize, fields) == [itemsize |-> itemsize, fields |-> fields]
Field(name, offset, size) == [name |-> name, offset |-> offset, size |-> size]

\* big-endian byte k (0 = most significant) of the size-byte value v
RECURSIVE ByteOf(_, _, _)
ByteOf(v, size, k) == IF k >= size - 1 THEN v % 256 ELSE ByteOf(v \div 256, size - 1, k)

\* the value of the size bytes at address a, most significant first
RECURSIVE ValueAt(_, _, _)
ValueAt(bytes, a, size) ==
    IF size = 0 THEN 0
    ELSE ValueAt(bytes, a, size - 1) * 256
         + (IF (a + size - 1) \in DOMAIN bytes THEN bytes[a + size - 1] ELSE 0)

\* byte k of element e (a function from field names to values) stored as dtype
ElemByte(dtype, e, k) ==
    LET hit == {i \in 1..Len(dtype.fields) :
                    /\ dtype.fields[i].offset <= k
                    /\ k < dtype.fields[i].offset + dtype.fields[i].size}
    IN  IF hit = {} THEN 0
        ELSE LET f == dtype.fields[CHOOSE i \in hit : TRUE]
             IN  ByteOf(e[f.name], f.size, k - f.offset)

\* numpy casts the assigned element to the map's dtype field by field, in order
CastElem(from, to, e) ==
    [n \in {to.fields[i].name : i \in 1..Len(to.fields)} |->
        LET i == CHOOSE j \in 1..Len(to.fields) : to.fields[j].name = n
        IN  IF i <= Len(from.fields) THEN e[from.fields[i].name] ELSE 0]

MemMap(offset, shape, dtype) == [offset |-> offset, shape |-> shape, dtype |-> dtype]

MemMapBytes(mm) == mm.shape[1] * mm.shape[2] * mm.dtype.itemsize

\* numpy.memmap(mode='r+') extends a file that is shorter than offset + bytes
GrowTo(bytes, n) ==
    [a \in 0..(Max(n, Cardinality(DOMAIN bytes)) - 1) |->
        IF a \in DOMAIN bytes THEN bytes[a] ELSE 0]

\* mm[r0:r0+n0, c0:c0+n1] = data, on the bytes of the file
MemMapAssign(bytes, mm, r0, c0, data) ==
    [a \in DOMAIN bytes |->
        LET rel == a - mm.offset
            idx == rel \div mm.dtype.itemsize
            r   == idx \div mm.shape[2]
            c   == idx % mm.shape[2]
        IN  IF /\ rel >= 0
               /\ rel < MemMapBytes(mm)
               /\ r >= r0 /\ r < r0 + data.shape[1]
               /\ c >= c0 /\ c < c0 + data.shape[2]
            THEN ElemByte(mm.dtype,
                          CastElem(data.dtype, mm.dtype, data.cells[<<r - r0, c - c0>>]),
                          rel % mm.dtype.itemsize)
            ELSE bytes[a]]

\* element (r, c) of the map, decoded from the bytes of the file
MemMapElem(bytes, mm, r, c) ==
    LET a == mm.offset + (r * mm.shape[2] + c) * mm.dtype.itemsize
    IN  [n \in {mm.dtype.fields[i].name : i \in 1..Len(mm.dtype.fields)} |->
            LET f == mm.dtype.fields[CHOOSE j \in 1..Len(mm.dtype.fields) :
                                        mm.dtype.fields[j].name = n]
            IN  ValueAt(bytes, a + f.offset, f.size)]

\* an ndarray of the given shape whose cell (r, c) holds v + r*n1 + c in every field
NdArray(ndim, n0, n1, dtype, v) ==
    [ndim  |-> ndim,
     shape |-> <<n0, n1>>,
     dtype |-> dtype,
     cells |-> [rc \in (0..(n0 - 1)) \X (0..(n1 - 1)) |->
                  [n \in {dtype.fields[i].name : i \in 1..Len(dtype.fields)} |->
                      v + rc[1] * n1 + rc[2]]]]

nbytes(data) == data.shape[1] * data.shape[2] * data.dtype.itemsize

-----------------------------------------------------------------------------
(* The CPHD 1.0 metadata tree (cphd1_elements.CPHD.CPHDType), as far as the *)
(* codec reads it, and the file header derived from it.                     *)

\* one entry of Data.Channels
ChannelEntry(id, nv, ns, pvpOff, sigOff) ==
    [Identifier |-> id, NumVectors |-> nv, NumSamples |-> ns,
     PVPArrayByteOffset |-> pvpOff, SignalArrayByteOffset |-> sigOff]

\* one entry of Data.SupportArrays
SupportEntry(id, nr, nc, bpe, off) ==
    [Identifier |-> id, NumRows |-> nr, NumCols |-> nc,
     BytesPerElement |-> bpe, ArrayByteOffset |-> off]

\* a PVP parameter occupies whole 8-byte words
PVPWordSize == 8

TxTimeField == Field("TxTime", 0, PVPWordSize)
AmpSFField == Field("AmpSF", PVPWordSize, PVPWordSize)

\* PVP.get_vector_dtype(): one field per PVP parameter, at its byte offset
get_vector_dtype(meta) ==
    DType(SumSeq([i \in 1..Len(meta.PVP) |-> meta.PVP[i].size]), meta.PVP)

\* binary_format_string_to_dtype(): the writer's signal element
binary_format_string_to_dtype(format) ==
    CASE format = "CI2" -> DType(2, <<Field("real", 0, 1), Field("imag", 1, 1)>>)
      [] format = "CI4" -> DType(4, <<Field("real", 0, 2), Field("imag", 2, 2)>>)
      [] OTHER          -> DType(8, <<Field("real", 0, 4), Field("imag", 4, 4)>>)

\* SupportArray.find_support_array(id).get_numpy_format(): (dtype, depth)
get_numpy_format(entry) == DType(entry.BytesPerElement, <<Field("v", 0, entry.BytesPerElement)>>)

NumCPHDChannels(meta) == Len(meta.Channels)

\* Data.SupportArrays as a list to iterate (None iterates nothing here)
SupportList(meta) == IF IsNone(meta.SupportArrays) THEN <<>> ELSE The(meta.SupportArrays)

PVPEntryBytes(meta, e) == e.NumVectors * get_vector_dtype(meta).itemsize
SignalEntryBytes(meta, e) ==
    e.NumVectors * e.NumSamples * binary_format_string_to_dtype(meta.SignalArrayFormat).itemsize
SupportEntryBytes(e) == e.NumRows * e.NumCols * e.BytesPerElement

\* the bytes the header and the XML block take at the start of a file
XmlBlockEnd(meta) == Len(meta.Channels) + Len(SupportList(meta))

\* CPHDType.make_file_header(): the blocks follow the XML block, support first,
\* each block as large as its entries together
make_file_header(meta) ==
    LET supSize == SumSeq([i \in 1..Len(SupportList(meta)) |->
                              SupportEntryBytes(SupportList(meta)[i])])
        pvpSize == SumSeq([i \in 1..Len(meta.Channels) |->
                              PVPEntryBytes(meta, meta.Channels[i])])
        sigSize == SumSeq([i \in 1..Len(meta.Channels) |->
                              SignalEntryBytes(meta, meta.Channels[i])])
        supOff  == XmlBlockEnd(meta)
    IN  [XML_BLOCK_BYTE_OFFSET     |-> 0,
         XML_BLOCK_SIZE            |-> XmlBlockEnd(meta),
         SUPPORT_BLOCK_BYTE_OFFSET |-> supOff,
         SUPPORT_BLOCK_SIZE        |-> supSize,
         PVP_BLOCK_BYTE_OFFSET     |-> supOff + supSize,
         PVP_BLOCK_SIZE            |-> pvpSize,
         SIGNAL_BLOCK_BYTE_OFFSET  |-> supOff + supSize + pvpSize,
         SIGNAL_BLOCK_SIZE         |-> sigSize]

(* Metadata trees handed to the writer.  The relative offsets of the entries *)
(* of a block follow one of four layouts: packed in list order, packed in    *)
(* reverse list order, all at offset 0, or packed and shifted by one byte.   *)

Layouts == {"packed", "reversed", "overlap", "shifted"}

OffsetIn(sizes, i, layout) ==
    CASE layout = "packed"   -> SumSeq(SubSeq(sizes, 1, i - 1))
      [] layout = "reversed" -> SumSeq(SubSeq(sizes, i + 1, Len(sizes)))
      [] layout = "overlap"  -> 0
      [] OTHER               -> SumSeq(SubSeq(sizes, 1, i - 1)) + 1

ChannelNames == <<"A", "B">>
SupportNames == <<"S", "T">>

\* nvs: NumVectors per channel; ns: NumSamples; sup: None or the (rows, cols)
\* of each support array; pvp: the PVP parameters; bpe: bytes per support element
MkMeta(nvs, ns, sup, pvp, fmt, bpe, layout) ==
    LET recsize  == SumSeq([i \in 1..Len(pvp) |-> pvp[i].size])
        pixsize  == binary_format_string_to_dtype(fmt).itemsize
        pvpSizes == [i \in 1..Len(nvs) |-> nvs[i] * recsize]
        sigSizes == [i \in 1..Len(nvs) |-> nvs[i] * ns * pixsize]
        dims     == IF IsNone(sup) THEN <<>> ELSE The(sup)
        supSizes == [i \in 1..Len(dims) |-> dims[i][1] * dims[i][2] * bpe]
    IN  [Channels |->
            [i \in 1..Len(nvs) |->
                ChannelEntry(ChannelNames[i], nvs[i], ns,
                             OffsetIn(pvpSizes, i, layout), OffsetIn(sigSizes, i, layout))],
         SupportArrays |->
            IF IsNone(sup) THEN None
            ELSE Some([i \in 1..Len(dims) |->
                        SupportEntry(SupportNames[i], dims[i][1], dims[i][2], bpe,
                                     OffsetIn(supSizes, i, layout))]),
         SignalArrayFormat |-> fmt,
         PVP |-> pvp]

\* the tree before construction
NoMeta == [Channels |-> <<>>, SupportArrays |-> None, SignalArrayFormat |-> "", PVP |-> <<>>]

\* the metadata trees of the writers written entry by entry: one channel of two
\* vectors; two channels of one vector; one channel and a support array of two
\* columns; one channel and an empty support array list
WriterMetas ==
    {MkMeta(<<2>>, 1, None, <<TxTimeField>>, "CI2", 1, "packed"),
     MkMeta(<<1, 1>>, 1, None, <<TxTimeField>>, "CI2", 1, "packed"),
     MkMeta(<<1>>, 1, Some(<< <<1, 2>> >>), <<TxTimeField>>, "CI2", 1, "packed"),
     MkMeta(<<1>>, 1, Some(<<>>), <<TxTimeField>>, "CI2", 1, "packed")}

\* the metadata trees of the writers written in bulk: one or two channels, no,
\* one or two support arrays, in every layout
BulkMetas ==
    {MkMeta(nvs, 1, sup, <<TxTimeField>>, "CI2", 1, layout) :
        nvs \in {<<2>>, <<2, 1>>},
        sup \in {None, Some(<< <<1, 2>> >>), Some(<< <<1, 2>>, <<1, 1>> >>)},
        layout \in Layouts}

-----------------------------------------------------------------------------
(* CPHDWriter1_0. *)

Ret(v) == [exc |-> NoExc, val |-> v]
Raise(e) == [exc |-> e, val |-> 0]

\* a call and how it ended: the operation, the exception it raised, whether the
\* completeness check ran, the lines that check logged, whether a warning was
\* logged, (write_file) the three dicts it was given, (close) whether close()
\* had been called before, and (__init__) the check_existence it was given
Call(op, exc) ==
    [op |-> op, exc |-> exc, checked |-> FALSE, report |-> {}, warn |-> FALSE,
     blocks |-> <<>>, again |-> FALSE, check_existence |-> FALSE]

NoCall == Call("none", NoExc)

NoFile == [exists |-> FALSE, isfile |-> FALSE, sig |-> <<>>, version |-> <<>>, hdr |-> None,
           xml |-> None, bytes |-> EmptyMap]
\* a file some earlier program left at the destination
OldFile == [exists |-> TRUE, isfile |-> TRUE, sig |-> <<>>, version |-> <<>>, hdr |-> None,
            xml |-> None,
            bytes |-> [a \in {0} |-> 255]]

\* the first line the writer's header states: 'CPHD/1.0'
WriterSignature == <<"C", "P", "H", "D">>
WriterVersion == <<"1", ".", "0">>

NoWritingState == [header |-> FALSE, pvp |-> EmptyMap, support |-> EmptyMap, signal |-> EmptyMap]

\* a signal map placed by the offset of the PVP block
signal_offset_in_pvp_block(header, entry) ==
    header.PVP_BLOCK_BYTE_OFFSET + entry.SignalArrayByteOffset

\* _initialize_writing: the offset of the signal map of a channel
signal_offset(header, entry) ==
    header.SIGNAL_BLOCK_BYTE_OFFSET + entry.SignalArrayByteOffset

\* _initialize_writing: the channel loop, folded over Data.Channels[1..n]
RECURSIVE InitChannels(_, _, _)
InitChannels(meta, header, n) ==
    IF n = 0
    THEN [channel_map |-> EmptyMap, pvp_memmaps |-> EmptyMap, signal_memmaps |-> EmptyMap,
          pvp |-> EmptyMap, signal |-> EmptyMap, extent |-> 0]
    ELSE LET prev  == InitChannels(meta, header, n - 1)
             entry == meta.Channels[n]
             pmm   == MemMap(header.PVP_BLOCK_BYTE_OFFSET + entry.PVPArrayByteOffset,
                             <<entry.NumVectors, 1>>, get_vector_dtype(meta))
             smm   == MemMap(signal_offset(header, entry),
                             <<entry.NumVectors, entry.NumSamples>>,
                             binary_format_string_to_dtype(meta.SignalArrayFormat))
         IN  [channel_map    |-> Put(prev.channel_map, entry.Identifier, n - 1),
              pvp_memmaps    |-> Put(prev.pvp_memmaps, entry.Identifier, pmm),
              signal_memmaps |-> Put(prev.signal_memmaps, entry.Identifier, smm),
              pvp            |-> Put(prev.pvp, entry.Identifier, 0),
              signal         |-> Put(prev.signal, entry.Identifier, 0),
              extent         |-> Max(prev.extent,
                                     Max(pmm.offset + MemMapBytes(pmm),
                                         smm.offset + MemMapBytes(smm)))]

\* _initialize_writing: the support array loop, folded over Data.SupportArrays[1..n]
RECURSIVE InitSupport(_, _, _)
InitSupport(meta, header, n) ==
    IF n = 0
    THEN [support_map |-> EmptyMap, support_memmaps |-> EmptyMap, support |-> EmptyMap,
          extent |-> 0]
    ELSE LET prev  == InitSupport(meta, header, n - 1)
             entry == SupportList(meta)[n]
             mm    == MemMap(header.SUPPORT_BLOCK_BYTE_OFFSET + entry.ArrayByteOffset,
                             <<entry.NumRows, entry.NumCols>>, get_numpy_format(entry))
         IN  [support_map     |-> Put(prev.support_map, entry.Identifier, n - 1),
              support_memmaps |-> Put(prev.support_memmaps, entry.Identifier, mm),
              support         |-> Put(prev.support, entry.Identifier, 0),
              extent          |-> Max(prev.extent, mm.offset + MemMapBytes(mm))]

\* a test that never finds the destination
destination_not_looked_at(check_existence, f) == FALSE

\* __init__: 'if check_existence and os.path.exists(file_name)'
destination_exists(check_existence, f) == check_existence /\ f.exists

\* CPHDWriter1_0(file_name, cphd_meta, check_existence): __init__,
\* _prepare_for_writing and _initialize_writing
CPHDWriter1_0_init(meta, check_existence) ==
    /\ pc = "new"
    /\ cphd_meta' = meta
    /\ cphd_header' = make_file_header(meta)
    /\ closed' = FALSE
    /\ UNCHANGED <<close_called, covered, threads, rside>>
    /\ IF destination_exists(check_existence, file)
       THEN /\ pc' = "failed"
            /\ writing_state' = NoWritingState
            /\ last' = [Call("init", "IOError") EXCEPT !.check_existence = check_existence]
            /\ UNCHANGED <<file, pvp_memmaps, signal_memmaps, support_memmaps,
                           channel_map, support_map>>
       ELSE LET header == make_file_header(meta)
                ch     == InitChannels(meta, header, Len(meta.Channels))
                su     == InitSupport(meta, header, Len(SupportList(meta)))
            IN  /\ pc' = "open"
                /\ file' = [exists |-> TRUE, isfile |-> TRUE, sig |-> WriterSignature,
                            version |-> WriterVersion,
                            hdr |-> Some(header), xml |-> Some(meta),
                            bytes |-> GrowTo(EmptyMap, Max(ch.extent, su.extent))]
                /\ writing_state' = [header |-> TRUE, pvp |-> ch.pvp,
                                     support |-> su.support, signal |-> ch.signal]
                /\ pvp_memmaps' = ch.pvp_memmaps
                /\ signal_memmaps' = ch.signal_memmaps
                /\ channel_map' = ch.channel_map
                /\ support_memmaps' = su.support_memmaps
                /\ support_map' = su.support_map
                /\ last' = [Call("init", NoExc) EXCEPT !.check_existence = check_existence]

\* _validate_channel_index
validate_channel_index(index) ==
    IF index.t = "str"
    THEN IF index.s \in DOMAIN channel_map THEN Ret(channel_map[index.s])
         ELSE Raise("KeyError")
    ELSE IF 0 <= index.i /\ index.i < NumCPHDChannels(cphd_meta) THEN Ret(index.i)
         ELSE Raise("ValueError")

\* _validate_channel_key
validate_channel_key(index) ==
    IF index.t = "str"
    THEN IF index.s \in DOMAIN channel_map THEN Ret(index.s)
         ELSE Raise("KeyError")
    ELSE IF 0 <= index.i /\ index.i < NumCPHDChannels(cphd_meta)
         THEN Ret(cphd_meta.Channels[index.i + 1].Identifier)
         ELSE Raise("ValueError")

\* _validate_support_index
validate_support_index(index) ==
    IF index.t = "str"
    THEN IF index.s \in DOMAIN support_map THEN Ret(support_map[index.s])
         ELSE Raise("KeyError")
    ELSE IF IsNone(cphd_meta.SupportArrays) THEN Raise("TypeError")
         ELSE IF 0 <= index.i /\ index.i < Len(The(cphd_meta.SupportArrays)) THEN Ret(index.i)
         ELSE Raise("ValueError")

\* _validate_support_key
validate_support_key(index) ==
    IF index.t = "str"
    THEN IF index.s \in DOMAIN support_map THEN Ret(index.s)
         ELSE Raise("KeyError")
    ELSE IF IsNone(cphd_meta.SupportArrays) THEN Raise("TypeError")
         ELSE IF 0 <= index.i /\ index.i < Len(The(cphd_meta.SupportArrays))
         THEN Ret(The(cphd_meta.SupportArrays)[index.i + 1].Identifier)
         ELSE Raise("ValueError")

\* _verify_dtype: both structured, as many fields, and the same field offsets
verify_dtype(obs_dtype, exp_dtype) ==
    /\ Len(obs_dtype.fields) = Len(exp_dtype.fields)
    /\ \A i \in 1..Len(obs_dtype.fields) :
          obs_dtype.fields[i].offset = exp_dtype.fields[i].offset

\* a range check that forgets the negative start
start_not_past_end(start, count, declared) == ~(start + count > declared)

\* the start and extent checks of a write: the IndexError conditions
start_in_range(start, count, declared) == ~(start < 0) /\ ~(start + count > declared)

\* the outcome of a write: the file's bytes, the counters, the exception, the warning
Written(bytes, ws, warn) == [bytes |-> bytes, ws |-> ws, exc |-> NoExc, warn |-> warn]
Failed(bytes, ws, e) == [bytes |-> bytes, ws |-> ws, exc |-> e, warn |-> FALSE]

\* a counter set to the count of the last write
counter_set(ws, block, identifier, count) == [ws EXCEPT ![block][identifier] = count]

\* self._writing_state[block][identifier] += count
counter_added(ws, block, identifier, count) == [ws EXCEPT ![block][identifier] = @ + count]

\* write_pvp_block(identifier, data, start_index) on the given bytes and counters
write_pvp_block(bytes, ws, identifier, data, start_index) ==
    LET vi == validate_channel_index(identifier)
        vk == validate_channel_key(identifier)
    IN  IF data.ndim # 1 THEN Failed(bytes, ws, "ValueError")
        ELSE IF vi.exc # NoExc THEN Failed(bytes, ws, vi.exc)
        ELSE LET entry == cphd_meta.Channels[vi.val + 1]
                 id    == vk.val
             IN  IF ~verify_dtype(data.dtype, pvp_memmaps[id].dtype)
                 THEN Failed(bytes, ws, "ValueError")
                 ELSE IF ~start_in_range(start_index, data.shape[1], entry.NumVectors)
                 THEN Failed(bytes, ws, "IndexError")
                 ELSE LET counted == counter_added(ws, "pvp", id, data.shape[1])
                      IN  Written(MemMapAssign(bytes, pvp_memmaps[id], start_index, 0, data),
                                  counted, counted.pvp[id] > entry.NumVectors)

\* __call__(data, start_indices, identifier): the signal write
write_chip(bytes, ws, data, start_indices, identifier) ==
    LET vi == validate_channel_index(identifier)
        vk == validate_channel_key(identifier)
        pixel_count == data.shape[1] * data.shape[2]
    IN  IF data.ndim # 2 THEN Failed(bytes, ws, "ValueError")
        ELSE IF vi.exc # NoExc THEN Failed(bytes, ws, vi.exc)
        ELSE LET entry == cphd_meta.Channels[vi.val + 1]
                 id    == vk.val
             IN  IF nbytes(data) \div pixel_count # signal_memmaps[id].dtype.itemsize
                 THEN Failed(bytes, ws, "ValueError")
                 ELSE IF \/ ~start_in_range(start_indices[1], data.shape[1], entry.NumVectors)
                         \/ ~start_in_range(start_indices[2], data.shape[2], entry.NumSamples)
                 THEN Failed(bytes, ws, "IndexError")
                 ELSE LET counted == counter_added(ws, "signal", id, pixel_count)
                      IN  Written(MemMapAssign(bytes, signal_memmaps[id],
                                               start_indices[1], start_indices[2], data),
                                  counted,
                                  counted.signal[id] > entry.NumVectors * entry.NumSamples)

\* write_support_block(identifier, data, start_indices)
write_support_block(bytes, ws, identifier, data, start_indices) ==
    LET vi == validate_support_index(identifier)
        vk == validate_support_key(identifier)
        pixel_count == data.shape[1] * data.shape[2]
    IN  IF data.ndim < 2 THEN Failed(bytes, ws, "ValueError")
        ELSE IF vi.exc # NoExc THEN Failed(bytes, ws, vi.exc)
        ELSE LET entry == The(cphd_meta.SupportArrays)[vi.val + 1]
                 id    == vk.val
             IN  IF nbytes(data) \div pixel_count # entry.BytesPerElement
                 THEN Failed(bytes, ws, "ValueError")
                 ELSE IF \/ ~start_in_range(start_indices[1], data.shape[1], entry.NumRows)
                         \/ ~start_in_range(start_indices[2], data.shape[2], entry.NumCols)
                 THEN Failed(bytes, ws, "IndexError")
                 ELSE LET counted == counter_added(ws, "support", id, pixel_count)
                      IN  Written(MemMapAssign(bytes, support_memmaps[id],
                                               start_indices[1], start_indices[2], data),
                                  counted, counted.support[id] > entry.NumRows * entry.NumCols)


\* one line of the completeness report: 'identifier X, W of D ... written'
ReportLine(block, id, written, declared) ==
    [block |-> block, id |-> id, written |-> written, declared |-> declared]

\* a channel loop that checks the PVP rows and forgets the signal pixels
check_channels_pvp_only(meta, ws) ==
    LET pvpShort == {i \in 1..Len(meta.Channels) :
                        ws.pvp[meta.Channels[i].Identifier] < meta.Channels[i].NumVectors}
    IN  [status |-> pvpShort = {},
         report |->
            {ReportLine("pvp", meta.Channels[i].Identifier,
                        ws.pvp[meta.Channels[i].Identifier],
                        meta.Channels[i].NumVectors) : i \in pvpShort}]

\* a channel loop that takes every counter that differs from the declared total,
\* above it as well as below it, for a shortfall
check_channels_exact(meta, ws) ==
    LET pvpOff == {i \in 1..Len(meta.Channels) :
                      ws.pvp[meta.Channels[i].Identifier] # meta.Channels[i].NumVectors}
        sigOff == {i \in 1..Len(meta.Channels) :
                      ws.signal[meta.Channels[i].Identifier]
                          # meta.Channels[i].NumVectors * meta.Channels[i].NumSamples}
    IN  [status |-> pvpOff = {} /\ sigOff = {},
         report |->
            {ReportLine("pvp", meta.Channels[i].Identifier,
                        ws.pvp[meta.Channels[i].Identifier],
                        meta.Channels[i].NumVectors) : i \in pvpOff}
            \cup
            {ReportLine("signal", meta.Channels[i].Identifier,
                        ws.signal[meta.Channels[i].Identifier],
                        meta.Channels[i].NumVectors * meta.Channels[i].NumSamples) :
                i \in sigOff}]

\* _check_fully_written, the channel loop: the status and the lines logged
check_channels(meta, ws) ==
    LET pvpShort == {i \in 1..Len(meta.Channels) :
                        ws.pvp[meta.Channels[i].Identifier] < meta.Channels[i].NumVectors}
        sigShort == {i \in 1..Len(meta.Channels) :
                        ws.signal[meta.Channels[i].Identifier]
                            < meta.Channels[i].NumVectors * meta.Channels[i].NumSamples}
    IN  [status |-> pvpShort = {} /\ sigShort = {},
         report |->
            {ReportLine("pvp", meta.Channels[i].Identifier,
                        ws.pvp[meta.Channels[i].Identifier],
                        meta.Channels[i].NumVectors) : i \in pvpShort}
            \cup
            {ReportLine("signal", meta.Channels[i].Identifier,
                        ws.signal[meta.Channels[i].Identifier],
                        meta.Channels[i].NumVectors * meta.Channels[i].NumSamples) :
                i \in sigShort}]

\* _check_fully_written, the support loop: every entry visited sets status = False,
\* and an entry with a shortfall adds its line
check_support(meta, ws, status) ==
    LET list  == SupportList(meta)
        short == {i \in 1..Len(list) :
                    ws.support[list[i].Identifier] < list[i].NumRows * list[i].NumCols}
    IN  [status |-> IF Len(list) > 0 THEN FALSE ELSE status,
         report |->
            {ReportLine("support", list[i].Identifier, ws.support[list[i].Identifier],
                        list[i].NumRows * list[i].NumCols) : i \in short}]

\* _check_fully_written
check_fully_written(meta, ws, isClosed) ==
    IF isClosed THEN [status |-> TRUE, report |-> {}, ran |-> FALSE]
    ELSE LET ch == check_channels(meta, ws)
             su == check_support(meta, ws, ch.status)
         IN  [status |-> su.status, report |-> ch.report \cup su.report, ran |-> TRUE]

\* close(): 'if self._closed: return'
close_returns_early == closed

\* a close() that marks the writer closed only when the check passed
closed_only_when_complete(fully_written) == fully_written.status

\* close(): 'self._closed = True', before the error is raised
closed_after_check(fully_written) == TRUE

\* close()
close ==
    /\ pc = "open"
    /\ close_called' = TRUE
    /\ UNCHANGED <<covered, threads, rside>>
    /\ IF close_returns_early
       THEN /\ last' = [Call("close", NoExc) EXCEPT !.again = close_called]
            /\ UNCHANGED wvars
       ELSE LET fully_written == check_fully_written(cphd_meta, writing_state, closed)
            IN  /\ closed' = closed_after_check(fully_written)
                /\ last' = [Call("close", IF fully_written.status THEN NoExc ELSE "IOError")
                              EXCEPT !.checked = fully_written.ran,
                                     !.report = fully_written.report,
                                     !.again = close_called]
                /\ UNCHANGED <<pc, file, cphd_meta, cphd_header, pvp_memmaps, signal_memmaps,
                               support_memmaps, channel_map, support_map, writing_state>>

\* one entry of write_file's loops, by block
write_item(block, out, identifier, data) ==
    CASE block = "pvp"    -> write_pvp_block(out.bytes, out.ws, StrRef(identifier), data, 0)
      [] block = "signal" -> write_chip(out.bytes, out.ws, data, <<0, 0>>, StrRef(identifier))
      [] OTHER            -> write_support_block(out.bytes, out.ws, StrRef(identifier),
                                                  data, <<0, 0>>)

\* write_file's loop over the items of one block, in the dict's order; an
\* exception ends the whole call and leaves what was written before it
RECURSIVE write_items(_, _, _)
write_items(block, items, out) ==
    IF items = <<>> \/ out.exc # NoExc THEN out
    ELSE write_items(block, Tail(items),
                     write_item(block, out, Head(items)[1], Head(items)[2]))

\* write_file(pvp_block, signal_block, support_block)
write_file(bytes, ws, pvp_block, signal_block, support_block) ==
    LET a == write_items("pvp", pvp_block, Written(bytes, ws, FALSE))
        b == write_items("signal", signal_block, a)
    IN  IF IsNone(support_block) THEN b
        ELSE write_items("support", The(support_block), b)



-----------------------------------------------------------------------------
(* The calls a user of the writer makes. *)

\* the fill values of the data handed to a write
Seeds == {1}

\* the references a write is addressed with: every declared identifier and
\* the first ordinal
ChannelRefs == {StrRef(cphd_meta.Channels[i].Identifier) : i \in 1..Len(cphd_meta.Channels)}
               \cup {IntRef(0)}
SupportRefs == {StrRef(SupportList(cphd_meta)[i].Identifier) : i \in 1..Len(SupportList(cphd_meta))}
               \cup {IntRef(0)}

\* the start indices tried: before, inside and past the declared extent
StartRows == (-1)..MaxRows
\* signal data is one column wide and support data one row high
SignalStarts == {<<r, 0>> : r \in StartRows} \cup {<<0, -1>>, <<0, 1>>}
SupportStarts == {<<0, c>> : c \in StartRows} \cup {<<-1, 0>>, <<1, 0>>}

\* a record dtype with the fields of another at the same offsets, the last
\* field half as wide: a record of fewer bytes
Narrowed(dtype) ==
    LET n    == Len(dtype.fields)
        f == dtype.fields[n]
    IN  DType(dtype.itemsize - f.size \div 2,
              [dtype.fields EXCEPT ![n] = Field(f.name, f.offset, f.size \div 2)])

\* a record dtype with the fields of another, each moved up by four bytes
Padded(dtype) ==
    DType(dtype.itemsize + 4,
          [i \in 1..Len(dtype.fields) |->
              Field(dtype.fields[i].name, dtype.fields[i].offset + 4, dtype.fields[i].size)])

\* the dtypes of the arrays handed to the three writes: the declared one and
\* others of another width
PvpDTypes ==
    {get_vector_dtype(cphd_meta), Narrowed(get_vector_dtype(cphd_meta)),
     Padded(get_vector_dtype(cphd_meta))}
SignalDTypes ==
    {binary_format_string_to_dtype(cphd_meta.SignalArrayFormat),
     binary_format_string_to_dtype("CI4")}
SupportDTypes == {DType(b, <<Field("v", 0, b)>>) : b \in 1..2}

\* the row counts of the arrays of a dtype: every count for the first, declared,
\* dtype and one row for the others
RowCounts(dtype, declared) == IF dtype = declared THEN 1..MaxRows ELSE {1}

\* the arrays handed to the three writes
PvpArrays ==
    UNION {{NdArray(1, n, 1, dtype, v) :
               n \in RowCounts(dtype, get_vector_dtype(cphd_meta)), v \in Seeds} :
           dtype \in PvpDTypes}
SignalArrays ==
    UNION {{NdArray(2, n, 1, dtype, v) :
               n \in RowCounts(dtype, binary_format_string_to_dtype(cphd_meta.SignalArrayFormat)),
               v \in Seeds} :
           dtype \in SignalDTypes}
SupportArrays ==
    UNION {{NdArray(2, 1, n, dtype, v) :
               n \in RowCounts(dtype, DType(1, <<Field("v", 0, 1)>>)), v \in Seeds} :
           dtype \in SupportDTypes}

\* the model follows a counter up to MaxExcess past its declared total
WithinCap(ws) ==
    /\ \A i \in 1..Len(cphd_meta.Channels) :
          LET e == cphd_meta.Channels[i]
          IN  /\ ws.pvp[e.Identifier] <= e.NumVectors + MaxExcess
              /\ ws.signal[e.Identifier] <= e.NumVectors * e.NumSamples + MaxExcess
    /\ \A i \in 1..Len(SupportList(cphd_meta)) :
          LET e == SupportList(cphd_meta)[i]
          IN  ws.support[e.Identifier] <= e.NumRows * e.NumCols + MaxExcess

\* the cells of an entry that data written at (row, col) covers
Cells(block, key, row, col, data) ==
    {<<block, key.val, r, c>> : r \in row..(row + data.shape[1] - 1),
                               c \in col..(col + data.shape[2] - 1)}

\* the effect of a write call on the state
Apply(op, out, cells) ==
    /\ WithinCap(out.ws)
    /\ file' = [file EXCEPT !.bytes = out.bytes]
    /\ writing_state' = out.ws
    /\ last' = [Call(op, out.exc) EXCEPT !.warn = out.warn]
    /\ covered' = IF out.exc = NoExc THEN covered \cup cells ELSE covered
    /\ UNCHANGED <<pc, cphd_meta, cphd_header, pvp_memmaps, signal_memmaps,
                   support_memmaps, channel_map, support_map, closed, close_called,
                   threads, rside>>

WritePvpBlock ==
    /\ pc = "open"
    /\ \E ref \in ChannelRefs, data \in PvpArrays, start \in StartRows :
          Apply("write_pvp", write_pvp_block(file.bytes, writing_state, ref, data, start),
                Cells("pvp", validate_channel_key(ref), start, 0, data))

WriteChip ==
    /\ pc = "open"
    /\ \E ref \in ChannelRefs, data \in SignalArrays, start \in SignalStarts :
          Apply("write_signal", write_chip(file.bytes, writing_state, data, start, ref),
                Cells("signal", validate_channel_key(ref), start[1], start[2], data))

WriteSupportBlock ==
    /\ pc = "open"
    /\ \E ref \in SupportRefs, data \in SupportArrays, start \in SupportStarts :
          Apply("write_support", write_support_block(file.bytes, writing_state, ref, data, start),
                Cells("support", validate_support_key(ref), start[1], start[2], data))

\* the identifiers of a block's entries, in list order
ChannelIds(meta) == [i \in 1..Len(meta.Channels) |-> meta.Channels[i].Identifier]
SupportIds(meta) == [i \in 1..Len(SupportList(meta)) |-> SupportList(meta)[i].Identifier]

\* how the keys of a dict handed to write_file differ from the declared identifiers
Deviations == {"exact", "missing", "extra", "extra_first"}

Deviate(ids, dev) ==
    CASE dev = "missing"     -> Tail(ids)
      [] dev = "extra"       -> Append(ids, "Z")
      [] dev = "extra_first" -> <<"Z">> \o ids
      [] OTHER               -> ids

\* the complete array of every key; an undeclared key comes with one element
PvpItems(meta, keys, v) ==
    [k \in 1..Len(keys) |->
        LET at == {i \in 1..Len(meta.Channels) : meta.Channels[i].Identifier = keys[k]}
            nv == IF at = {} THEN 1 ELSE meta.Channels[CHOOSE i \in at : TRUE].NumVectors
        IN  <<keys[k], NdArray(1, nv, 1, get_vector_dtype(meta), v + k)>>]

SignalItems(meta, keys, v) ==
    [k \in 1..Len(keys) |->
        LET at == {i \in 1..Len(meta.Channels) : meta.Channels[i].Identifier = keys[k]}
            e  == meta.Channels[CHOOSE i \in at : TRUE]
        IN  <<keys[k],
              NdArray(2, IF at = {} THEN 1 ELSE e.NumVectors,
                      IF at = {} THEN 1 ELSE e.NumSamples,
                      binary_format_string_to_dtype(meta.SignalArrayFormat), v + k)>>]

SupportItems(meta, keys, v) ==
    [k \in 1..Len(keys) |->
        LET at == {i \in 1..Len(SupportList(meta)) : SupportList(meta)[i].Identifier = keys[k]}
            e  == SupportList(meta)[CHOOSE i \in at : TRUE]
        IN  <<keys[k],
              NdArray(2, IF at = {} THEN 1 ELSE e.NumRows,
                      IF at = {} THEN 1 ELSE e.NumCols,
                      IF at = {} THEN DType(1, <<Field("v", 0, 1)>>) ELSE get_numpy_format(e),
                      v + k)>>]

\* the dicts handed to write_file: one block's keys deviate, or the support
\* dict is left out
BulkInputs(meta) ==
    {<<PvpItems(meta, Deviate(ChannelIds(meta), IF block = "pvp" THEN dev ELSE "exact"), v),
       SignalItems(meta, Deviate(ChannelIds(meta), IF block = "signal" THEN dev ELSE "exact"), v),
       IF block = "support_none" \/ IsNone(meta.SupportArrays) THEN None
       ELSE Some(SupportItems(meta, Deviate(SupportIds(meta),
                                            IF block = "support" THEN dev ELSE "exact"), v))>> :
        block \in {"pvp", "signal", "support", "support_none"},
        dev \in IF meta.Channels = <<>> THEN {"exact"} ELSE Deviations,
        v \in Seeds}

Keys(items) == [k \in 1..Len(items) |-> items[k][1]]

WriteFile ==
    /\ pc = "open"
    /\ \E in \in BulkInputs(cphd_meta) :
          LET out == write_file(file.bytes, writing_state, in[1], in[2], in[3])
          IN  /\ WithinCap(out.ws)
              /\ file' = [file EXCEPT !.bytes = out.bytes]
              /\ writing_state' = out.ws
              /\ last' = [Call("write_file", out.exc)
                            EXCEPT !.warn = out.warn,
                                   !.blocks = <<in[1], in[2],
                                                IF IsNone(in[3]) THEN <<>> ELSE The(in[3])>>]
              /\ UNCHANGED <<pc, cphd_meta, cphd_header, pvp_memmaps, signal_memmaps,
                             support_memmaps, channel_map, support_map, closed,
                             close_called, covered, threads, rside>>

-----------------------------------------------------------------------------
(* Two threads that each make one write call on the one writer.  A call runs
   in the steps of its code: the validation of its arguments, the assignment to
   the memory map, and the update of the written counter, which python runs as
   a load of the counter, an addition and a store. *)

\* a write call: the block, the identifier, the array and the start indices
WriteCall(block, id, data, start) == [block |-> block, id |-> id, data |-> data, start |-> start]

\* the call c made on the bytes and counters of `out`
write_call(out, c) ==
    CASE c.block = "pvp" ->
            write_pvp_block(out.bytes, out.ws, StrRef(c.id), c.data, c.start[1])
      [] c.block = "signal" ->
            write_chip(out.bytes, out.ws, c.data, c.start, StrRef(c.id))
      [] OTHER ->
            write_support_block(out.bytes, out.ws, StrRef(c.id), c.data, c.start)

\* no thread has been started
NoThreads == [calls |-> <<>>, at |-> <<>>, loaded |-> <<>>, exc |-> <<>>,
              bytes |-> EmptyMap, ws |-> NoWritingState, mixed |-> FALSE]

\* the calls the threads make: one row of every block of every entry, at the
\* first row or column and, where the entry has one, at the second
ThreadCalls(v) ==
    {WriteCall("pvp", e.Identifier, NdArray(1, 1, 1, get_vector_dtype(cphd_meta), v), <<r, 0>>) :
        e \in Range(cphd_meta.Channels), r \in 0..1}
    \cup
    {WriteCall("signal", e.Identifier,
               NdArray(2, 1, 1, binary_format_string_to_dtype(cphd_meta.SignalArrayFormat), v),
               <<r, 0>>) : e \in Range(cphd_meta.Channels), r \in 0..1}
    \cup
    {WriteCall("support", e.Identifier, NdArray(2, 1, 1, get_numpy_format(e), v), <<0, c>>) :
        e \in Range(SupportList(cphd_meta)), c \in 0..1}

\* the two threads are started, each with its call, on the writer as it stands
StartThreads ==
    /\ pc = "open" /\ threads = NoThreads
    /\ \E c1 \in ThreadCalls(1), c2 \in ThreadCalls(2) :
          threads' = [calls |-> <<c1, c2>>, at |-> <<"validate", "validate">>,
                      loaded |-> <<0, 0>>, exc |-> <<NoExc, NoExc>>,
                      bytes |-> file.bytes, ws |-> writing_state, mixed |-> FALSE]
    /\ UNCHANGED <<wvars, last, close_called, covered, rside>>

\* thread t is at the given step of its call
ThreadAt(t, step) == threads # NoThreads /\ threads.at[t] = step

\* thread t has moved to the given step; `mixed` records that it ran while the
\* other thread was in the middle of its call
MovedTo(t, step) ==
    [threads EXCEPT !.at[t] = step,
                    !.mixed = @ \/ threads.at[3 - t] \in {"assign", "load", "store"}]

\* the call of thread t on the file and the counters as they stand
ThreadOutcome(t) == write_call(Written(file.bytes, writing_state, FALSE), threads.calls[t])

\* a write checks its arguments and raises, or goes on to write
Validate(t) ==
    /\ ThreadAt(t, "validate")
    /\ threads' = IF ThreadOutcome(t).exc # NoExc
                  THEN [MovedTo(t, "done") EXCEPT !.exc[t] = ThreadOutcome(t).exc]
                  ELSE MovedTo(t, "assign")
    /\ UNCHANGED <<wvars, last, close_called, covered, rside>>

\* 'self._..._memmaps[identifier][rows, columns] = data'
Assign(t) ==
    /\ ThreadAt(t, "assign")
    /\ file' = [file EXCEPT !.bytes = ThreadOutcome(t).bytes]
    /\ threads' = MovedTo(t, "load")
    /\ UNCHANGED <<pc, cphd_meta, cphd_header, pvp_memmaps, signal_memmaps, support_memmaps,
                   channel_map, support_map, writing_state, closed, last, close_called, covered,
                   rside>>

\* 'self._writing_state[block][identifier] += count': the load and the addition
Load(t) ==
    /\ ThreadAt(t, "load")
    /\ threads' = [MovedTo(t, "store") EXCEPT
                      !.loaded[t] = ThreadOutcome(t).ws[threads.calls[t].block][threads.calls[t].id]]
    /\ UNCHANGED <<wvars, last, close_called, covered, rside>>

\* 'self._writing_state[block][identifier] += count': the store
StoreCounter(t) ==
    /\ ThreadAt(t, "store")
    /\ writing_state' = [writing_state EXCEPT
                            ![threads.calls[t].block][threads.calls[t].id] = threads.loaded[t]]
    /\ threads' = MovedTo(t, "done")
    /\ UNCHANGED <<pc, file, cphd_meta, cphd_header, pvp_memmaps, signal_memmaps,
                   support_memmaps, channel_map, support_map, closed, last, close_called,
                   covered, rside>>

-----------------------------------------------------------------------------
(* Python slices, ranges and integer parsing, as the readers use them. *)

Clamp(x, lo, hi) == IF x < lo THEN lo ELSE IF x > hi THEN hi ELSE x

\* the indices i, i + step, ... before stop
RECURSIVE Walk(_, _, _)
Walk(i, stop, step) ==
    IF (step > 0 /\ i >= stop) \/ (step < 0 /\ i <= stop) THEN <<>>
    ELSE <<i>> \o Walk(i + step, stop, step)

\* the indices a[start:stop:step] selects of n elements (stop None: a[start::step])
PySlice(n, start, stop, step) ==
    LET norm(x, lo, hi) == Clamp(IF x < 0 THEN x + n ELSE x, lo, hi)
    IN  IF step > 0
        THEN Walk(norm(start, 0, n), IF IsNone(stop) THEN n ELSE norm(The(stop), 0, n), step)
        ELSE Walk(norm(start, -1, n - 1),
                  IF IsNone(stop) THEN -1 ELSE norm(The(stop), -1, n - 1), step)

\* a range argument: None, an integer, or a tuple (start[, stop[, stride]])
NoRange == [t |-> "none", i |-> 0, v |-> <<>>]
IntRange(i) == [t |-> "int", i |-> i, v |-> <<>>]
TupleRange(v) == [t |-> "tuple", i |-> 0, v |-> v]

\* validate_range(arg, siz): the resolved (start, stop, stride)
validate_range(arg, siz) ==
    LET r == CASE arg.t = "none" -> <<0, siz, 1>>
               [] arg.t = "int"  -> <<arg.i, arg.i + 1, 1>>
               [] OTHER          -> <<IF Len(arg.v) >= 1 THEN arg.v[1] ELSE 0,
                                      IF Len(arg.v) >= 2 THEN arg.v[2] ELSE siz,
                                      IF Len(arg.v) >= 3 THEN arg.v[3] ELSE 1>>
    IN  IF r[3] = 0 THEN Raise("ValueError")
        ELSE IF r[1] = -1 /\ r[3] < 0
        THEN IF r[2] \in (-1)..siz THEN Ret(r)
             ELSE Raise("ValueError")
        ELSE IF r[1] \in 0..siz /\ r[2] \in 0..siz THEN Ret(r)
             ELSE Raise("ValueError")

\* the rows a resolved range selects of a backing store that honors the
\* reverse-from-end convention
RangeRows(n, r) ==
    IF r[1] = -1 /\ r[3] < 0 THEN PySlice(n, r[1], None, r[3])
    ELSE PySlice(n, r[1], Some(r[2]), r[3])

Digit == <<"0", "1", "2", "3", "4", "5", "6", "7", "8", "9">>

\* str(n) of an integer
RECURSIVE Numeral(_)
Numeral(n) ==
    IF n < 0 THEN "-" \o Numeral(-n)
    ELSE IF n < 10 THEN Digit[n + 1]
    ELSE Numeral(n \div 10) \o Digit[(n % 10) + 1]

\* the integers whose numerals the model's strings are compared with
Numerals == (-10)..10

\* int_func(index): an int is itself, a string is parsed as a decimal numeral
int_func(index) ==
    IF index.t = "int" THEN Ret(index.i)
    ELSE LET ns == {n \in Numerals : Numeral(n) = index.s}
         IN  IF ns = {} THEN Raise("ValueError")
             ELSE Ret(CHOOSE n \in ns : TRUE)

\* s.startswith(p), on strings as tuples of characters
StartsWith(s, p) == Len(s) >= Len(p) /\ SubSeq(s, 1, Len(p)) = p

-----------------------------------------------------------------------------
(* CPHDDetails and the construction of the readers. *)

Signature == <<"C", "P", "H", "D">>
Version0_3 == <<"0", ".", "3">>
Version1_0 == <<"1", ".", "0">>

\* a test that takes only the two version strings themselves
version_is_listed(cphd_version) == cphd_version \in {Version0_3, Version1_0}

\* CPHDDetails._extract_header: the versions a header is parsed for
version_is_handled(cphd_version) ==
    StartsWith(cphd_version, Version0_3) \/ StartsWith(cphd_version, Version1_0)

\* the first line of a file: what stands before its last '/', the '/', and
\* what stands after it
FirstLine(f) ==
    IF f.sig = <<>> /\ f.version = <<>> THEN <<>> ELSE f.sig \o <<"/">> \o f.version

\* line.split(sep): the parts of a line between the separators
RECURSIVE Split(_, _)
Split(line, sep) ==
    LET at == {i \in 1..Len(line) : line[i] = sep}
    IN  IF at = {} THEN <<line>>
        ELSE LET i == CHOOSE k \in at : \A j \in at : k <= j
             IN  <<SubSeq(line, 1, i - 1)>> \o Split(SubSeq(line, i + 1, Len(line)), sep)

\* CPHDDetails._extract_version: the second of the two parts of the first line
extract_version(f) ==
    LET parts == Split(FirstLine(f), "/")
    IN  IF Len(parts) # 2 THEN Raise("ValueError") ELSE Ret(parts[2])

\* CPHDDetails(file_name): the version, the header and the metadata tree
CPHDDetails(f) ==
    IF ~f.exists \/ ~f.isfile THEN Raise("IOError")
    ELSE IF ~StartsWith(FirstLine(f), Signature) THEN Raise("IOError")
    ELSE LET cphd_version == extract_version(f)
         IN  IF cphd_version.exc # NoExc THEN cphd_version
             ELSE IF ~version_is_handled(cphd_version.val) THEN Raise("ValueError")
             ELSE Ret([cphd_version |-> cphd_version.val, cphd_header |-> The(f.hdr),
                       cphd_meta |-> The(f.xml)])

\* the argument of a reader's constructor: the path of a file
PathArg(f) == [t |-> "str", file |-> f, details |-> None]

\* the argument of a reader's constructor: the CPHDDetails made of a file
DetailsArg(f) == [t |-> "CPHDDetails", file |-> f, details |-> Some(CPHDDetails(f).val)]

\* a version test that passes every file
version_unchecked(cphd_version, version) == TRUE

\* _validate_cphd_details: 'cphd_details.cphd_version.startswith(version)'
version_matches(cphd_version, version) == StartsWith(cphd_version, version)

\* _validate_cphd_details(cphd_details, version)
validate_cphd_details(cphd_details, version) ==
    LET details == IF cphd_details.t = "str" THEN CPHDDetails(cphd_details.file)
                   ELSE IF cphd_details.t # "CPHDDetails" THEN Raise("TypeError")
                   ELSE Ret(The(cphd_details.details))
    IN  IF details.exc # NoExc THEN details
        ELSE IF ~IsNone(version) /\ ~version_matches(details.val.cphd_version, The(version))
        THEN Raise("ValueError")
        ELSE details

\* numpy.memmap(mode='r') of a region that ends past the end of the file fails
Mappable(bytes, mm) == mm.offset + MemMapBytes(mm) <= Cardinality(DOMAIN bytes)

\* the raw element of a chipper: two bands of the raw dtype, real then imaginary
RawPair(size) == DType(2 * size, <<Field("real", 0, size), Field("imag", size, size)>>)

\* CPHDReader1_0._create_chippers: one chipper per channel, in list order
CPHDReader1_0_create_chippers(details) ==
    LET sample_type == details.cphd_meta.SignalArrayFormat
        raw == CASE sample_type = "CF8" -> Some(RawPair(4))
                 [] sample_type = "CI4" -> Some(RawPair(2))
                 [] sample_type = "CI2" -> Some(RawPair(1))
                 [] OTHER               -> None
        block_offset == details.cphd_header.SIGNAL_BLOCK_BYTE_OFFSET
    IN  IF "SignalArrayFormat" \notin DOMAIN details.cphd_meta THEN Raise("AttributeError")
        ELSE IF IsNone(raw) THEN Raise("ValueError")
        ELSE Ret([i \in 1..Len(details.cphd_meta.Channels) |->
                    LET entry == details.cphd_meta.Channels[i]
                    IN  MemMap(block_offset + entry.SignalArrayByteOffset,
                               <<entry.NumVectors, entry.NumSamples>>, The(raw))])

\* a channel map that gives every identifier the ordinal 0
channel_ordinal_zero(i) == 0

\* CPHDReader1_0._create_pvp_memmaps: '_channel_map[entry.Identifier] = i'
channel_ordinal(i) == i

\* CPHDReader1_0._create_pvp_memmaps, folded over Data.Channels[1..n]
RECURSIVE CPHDReader1_0_create_pvp_memmaps(_, _)
CPHDReader1_0_create_pvp_memmaps(details, n) ==
    IF n = 0 THEN [channel_map |-> EmptyMap, pvp_memmap |-> EmptyMap]
    ELSE LET prev  == CPHDReader1_0_create_pvp_memmaps(details, n - 1)
             entry == details.cphd_meta.Channels[n]
             offset == details.cphd_header.PVP_BLOCK_BYTE_OFFSET + entry.PVPArrayByteOffset
         IN  [channel_map |-> Put(prev.channel_map, entry.Identifier, channel_ordinal(n - 1)),
              pvp_memmap  |-> Put(prev.pvp_memmap, entry.Identifier,
                                  MemMap(offset, <<entry.NumVectors, 1>>,
                                         get_vector_dtype(details.cphd_meta)))]

\* CPHDReader1_0._create_support_array_memmaps, folded over Data.SupportArrays[1..n]
RECURSIVE CPHDReader1_0_create_support_array_memmaps(_, _)
CPHDReader1_0_create_support_array_memmaps(details, n) ==
    IF n = 0 THEN [support_array_map |-> EmptyMap, support_array_memmap |-> EmptyMap]
    ELSE LET prev  == CPHDReader1_0_create_support_array_memmaps(details, n - 1)
             entry == The(details.cphd_meta.SupportArrays)[n]
             offset == details.cphd_header.SUPPORT_BLOCK_BYTE_OFFSET + entry.ArrayByteOffset
         IN  [support_array_map    |-> Put(prev.support_array_map, entry.Identifier, n - 1),
              support_array_memmap |-> Put(prev.support_array_memmap, entry.Identifier,
                                           MemMap(offset, <<entry.NumRows, entry.NumCols>>,
                                                  get_numpy_format(entry)))]

\* a reader object; the fields a version does not have are None
Reader(state, cls, details, chippers, cmap, pmaps, smap, smaps, exc) ==
    [pc |-> state, cls |-> cls, cphd_details |-> details, chipper |-> chippers,
     channel_map |-> cmap, pvp_memmap |-> pmaps, support_array_map |-> smap,
     support_array_memmap |-> smaps, exc |-> exc]

NoReader == Reader("none", "", None, <<>>, None, None, None, None, NoExc)

\* a construction that raised
NotConstructed(cls, e) == Reader("failed", cls, None, <<>>, None, None, None, None, e)

\* every map of the sequence or dict lies within the file
AllMappable(bytes, maps) == \A k \in DOMAIN maps : Mappable(bytes, maps[k])

\* CPHDReader1_0(cphd_details)
CPHDReader1_0_init(cphd_details) ==
    LET d == validate_cphd_details(cphd_details, Some(Version1_0))
    IN  IF d.exc # NoExc THEN NotConstructed("CPHDReader1_0", d.exc)
        ELSE LET details  == d.val
                 chippers == CPHDReader1_0_create_chippers(details)
                 pvp      == CPHDReader1_0_create_pvp_memmaps(
                                 details, Len(details.cphd_meta.Channels))
                 sup      == CPHDReader1_0_create_support_array_memmaps(
                                 details, Len(SupportList(details.cphd_meta)))
             IN  IF chippers.exc # NoExc THEN NotConstructed("CPHDReader1_0", chippers.exc)
                 ELSE IF ~AllMappable(cphd_details.file.bytes, pvp.pvp_memmap)
                 THEN NotConstructed("CPHDReader1_0", "ValueError")
                 ELSE IF IsNone(details.cphd_meta.SupportArrays)
                 THEN Reader("open", "CPHDReader1_0", Some(details), chippers.val,
                             Some(pvp.channel_map), Some(pvp.pvp_memmap), None, None, NoExc)
                 ELSE IF ~AllMappable(cphd_details.file.bytes, sup.support_array_memmap)
                 THEN NotConstructed("CPHDReader1_0", "ValueError")
                 ELSE Reader("open", "CPHDReader1_0", Some(details), chippers.val,
                             Some(pvp.channel_map), Some(pvp.pvp_memmap),
                             Some(sup.support_array_map), Some(sup.support_array_memmap),
                             NoExc)

\* CPHDType0_3.VectorParameters.get_vector_dtype()
get_vector_dtype_0_3(meta) ==
    DType(SumSeq([i \in 1..Len(meta.VectorParameters) |-> meta.VectorParameters[i].size]),
          meta.VectorParameters)

\* CPHDReader0_3._create_chippers, folded over Data.ArraySize[1..n]: the offset
\* of a chipper is the end of the one before it
RECURSIVE CPHDReader0_3_chipper_offset(_, _, _)
CPHDReader0_3_chipper_offset(details, bpp, n) ==
    IF n = 1 THEN details.cphd_header.CPHD_BYTE_OFFSET
    ELSE LET entry == details.cphd_meta.ArraySize[n - 1]
         IN  CPHDReader0_3_chipper_offset(details, bpp, n - 1)
             + entry.NumVectors * entry.NumSamples * bpp

\* CPHDReader0_3._create_chippers
CPHDReader0_3_create_chippers(details) ==
    LET sample_type == details.cphd_meta.SampleType
        raw == CASE sample_type = "RE32F_IM32F" -> Some(RawPair(4))
                 [] sample_type = "RE16I_IM16I" -> Some(RawPair(2))
                 [] sample_type = "RE08I_IM08I" -> Some(RawPair(1))
                 [] OTHER                       -> None
    IN  IF "SampleType" \notin DOMAIN details.cphd_meta THEN Raise("AttributeError")
        ELSE IF IsNone(raw) THEN Raise("ValueError")
        ELSE Ret([i \in 1..Len(details.cphd_meta.ArraySize) |->
                    LET entry == details.cphd_meta.ArraySize[i]
                    IN  MemMap(CPHDReader0_3_chipper_offset(details, The(raw).itemsize, i),
                               <<entry.NumVectors, entry.NumSamples>>, The(raw))])

\* CPHDReader0_3._create_pvp_memmaps: a list, one map per entry of Data.ArraySize
CPHDReader0_3_create_pvp_memmaps(details) ==
    [i \in 1..Len(details.cphd_meta.ArraySize) |->
        MemMap(details.cphd_header.VB_BYTE_OFFSET + details.cphd_meta.NumBytesVBP * (i - 1),
               <<details.cphd_meta.ArraySize[i].NumVectors, 1>>,
               get_vector_dtype_0_3(details.cphd_meta))]

\* CPHDReader0_3(cphd_details)
CPHDReader0_3_init(cphd_details) ==
    LET d == validate_cphd_details(cphd_details, Some(Version0_3))
    IN  IF d.exc # NoExc THEN NotConstructed("CPHDReader0_3", d.exc)
        ELSE LET details  == d.val
                 chippers == CPHDReader0_3_create_chippers(details)
                 pvp      == CPHDReader0_3_create_pvp_memmaps(details)
             IN  IF chippers.exc # NoExc THEN NotConstructed("CPHDReader0_3", chippers.exc)
                 ELSE IF ~AllMappable(cphd_details.file.bytes, pvp)
                 THEN NotConstructed("CPHDReader0_3", "ValueError")
                 ELSE Reader("open", "CPHDReader0_3", Some(details), chippers.val,
                             None, Some(pvp), None, None, NoExc)

\* the validated details, as __new__ hands them to the class it selects
ToDetails(cphd_details, d) == [t |-> "CPHDDetails", file |-> cphd_details.file, details |-> Some(d)]

\* CPHDReader(cphd_details): __new__ selects the class by the version of the file
CPHDReader_new(cphd_details) ==
    LET d == validate_cphd_details(cphd_details, None)
    IN  IF d.exc # NoExc THEN NotConstructed("CPHDReader", d.exc)
        ELSE IF StartsWith(d.val.cphd_version, Version0_3) THEN CPHDReader0_3_init(ToDetails(cphd_details, d.val))
        ELSE IF StartsWith(d.val.cphd_version, Version1_0) THEN CPHDReader1_0_init(ToDetails(cphd_details, d.val))
        ELSE NotConstructed("CPHDReader", "ValueError")

-----------------------------------------------------------------------------
(* is_a. *)

\* is_a returned None
ReturnedNone == Reader("absent", "", None, <<>>, None, None, None, None, NoExc)

\* an except clause that catches every exception
except_Exception(e) == e # NoExc

\* is_a: 'except IOError'
except_IOError(e) == e = "IOError"

\* is_a(file_name): the reader of the file, None when CPHDDetails or CPHDReader
\* raises an IOError; any other exception propagates
is_a(f) ==
    LET cphd_details == CPHDDetails(f)
    IN  IF cphd_details.exc # NoExc
        THEN IF except_IOError(cphd_details.exc) THEN ReturnedNone
             ELSE NotConstructed("CPHDDetails", cphd_details.exc)
        ELSE LET rd == CPHDReader_new(DetailsArg(f))
             IN  IF rd.exc # NoExc /\ except_IOError(rd.exc) THEN ReturnedNone
                 ELSE rd

-----------------------------------------------------------------------------
(* The read operations. *)

cphd_meta_of(rd) == The(rd.cphd_details).cphd_meta
cphd_header_of(rd) == The(rd.cphd_details).cphd_header

\* CPHDReader1_0._validate_index
CPHDReader1_0_validate_index(rd, index) ==
    IF index.t = "str"
    THEN IF index.s \in DOMAIN The(rd.channel_map) THEN Ret(The(rd.channel_map)[index.s])
         ELSE Raise("KeyError")
    ELSE IF 0 <= index.i /\ index.i < NumCPHDChannels(cphd_meta_of(rd)) THEN Ret(index.i)
         ELSE Raise("ValueError")

\* a range check that lets the channel count itself through
ordinal_up_to_count(int_index, count) == 0 <= int_index /\ int_index <= count

\* CPHDReader0_3._validate_index: 'if not (0 <= int_index < NumCPHDChannels)'
ordinal_in_range(int_index, count) == 0 <= int_index /\ int_index < count

\* CPHDReader0_3._validate_index
CPHDReader0_3_validate_index(rd, index) ==
    LET int_index == int_func(index)
    IN  IF int_index.exc # NoExc THEN int_index
        ELSE IF ~ordinal_in_range(int_index.val, cphd_meta_of(rd).NumCPHDChannels)
        THEN Raise("ValueError")
        ELSE int_index

\* the elements of rows `rows` and columns `cols` of a map, decoded from the file
Elements(bytes, mm, rows, cols) ==
    [k \in 1..Len(rows) |-> [l \in 1..Len(cols) |-> MemMapElem(bytes, mm, rows[k], cols[l])]]

\* the field names of a dtype
FieldNames(dtype) == {dtype.fields[i].name : i \in 1..Len(dtype.fields)}

\* mm[start:stop:stride], an ordinary slice of the rows of a PVP map
PvpSlice(bytes, mm, r) ==
    LET rows == PySlice(mm.shape[1], r[1], Some(r[2]), r[3])
    IN  [k \in 1..Len(rows) |-> MemMapElem(bytes, mm, rows[k], 0)]

\* one field of every record of a sequence
Column(records, variable) == [k \in 1..Len(records) |-> records[k][variable]]

\* CPHDReader1_0.read_pvp_variable(variable, index, the_range): None when the
\* PVP layout has no such field
CPHDReader1_0_read_pvp_variable(rd, bytes, variable, index, the_range) ==
    LET int_index == CPHDReader1_0_validate_index(rd, index)
    IN  IF int_index.exc # NoExc THEN int_index
        ELSE LET channel == cphd_meta_of(rd).Channels[int_index.val + 1]
                 r  == validate_range(the_range, channel.NumVectors)
                 mm == The(rd.pvp_memmap)[channel.Identifier]
             IN  IF r.exc # NoExc THEN r
                 ELSE IF variable \in FieldNames(mm.dtype)
                 THEN Ret(Some(Column(PvpSlice(bytes, mm, r.val), variable)))
                 ELSE Ret(None)

\* CPHDReader1_0.read_pvp_array(index, the_range)
CPHDReader1_0_read_pvp_array(rd, bytes, index, the_range) ==
    LET int_index == CPHDReader1_0_validate_index(rd, index)
    IN  IF int_index.exc # NoExc THEN int_index
        ELSE LET channel == cphd_meta_of(rd).Channels[int_index.val + 1]
                 r  == validate_range(the_range, channel.NumVectors)
                 mm == The(rd.pvp_memmap)[channel.Identifier]
             IN  IF r.exc # NoExc THEN r
                 ELSE Ret(PvpSlice(bytes, mm, r.val))

\* CPHDReader0_3.read_pvp_variable(variable, index, the_range)
CPHDReader0_3_read_pvp_variable(rd, bytes, variable, index, the_range) ==
    LET int_index == CPHDReader0_3_validate_index(rd, index)
    IN  IF int_index.exc # NoExc THEN int_index
        ELSE IF (int_index.val + 1) \notin DOMAIN cphd_meta_of(rd).ArraySize
        THEN Raise("IndexError")
        ELSE LET r  == validate_range(the_range,
                                      cphd_meta_of(rd).ArraySize[int_index.val + 1].NumVectors)
                 mm == The(rd.pvp_memmap)[int_index.val + 1]
             IN  IF r.exc # NoExc THEN r
                 ELSE IF variable \in FieldNames(mm.dtype)
                 THEN Ret(Some(Column(PvpSlice(bytes, mm, r.val), variable)))
                 ELSE Ret(None)

\* CPHDReader0_3.read_pvp_array(index, the_range)
CPHDReader0_3_read_pvp_array(rd, bytes, index, the_range) ==
    LET int_index == CPHDReader0_3_validate_index(rd, index)
    IN  IF int_index.exc # NoExc THEN int_index
        ELSE IF (int_index.val + 1) \notin DOMAIN cphd_meta_of(rd).ArraySize
        THEN Raise("IndexError")
        ELSE LET r  == validate_range(the_range,
                                      cphd_meta_of(rd).ArraySize[int_index.val + 1].NumVectors)
                 mm == The(rd.pvp_memmap)[int_index.val + 1]
             IN  IF r.exc # NoExc THEN r
                 ELSE Ret(PvpSlice(bytes, mm, r.val))

\* self._validate_index(index), of the reader's class
validate_index(rd, index) ==
    IF rd.cls = "CPHDReader1_0" THEN CPHDReader1_0_validate_index(rd, index)
    ELSE CPHDReader0_3_validate_index(rd, index)

\* self.read_pvp_variable(variable, index, the_range), of the reader's class
read_pvp_variable(rd, bytes, variable, index, the_range) ==
    IF rd.cls = "CPHDReader1_0"
    THEN CPHDReader1_0_read_pvp_variable(rd, bytes, variable, index, the_range)
    ELSE CPHDReader0_3_read_pvp_variable(rd, bytes, variable, index, the_range)

\* self.read_pvp_array(index, the_range), of the reader's class
read_pvp_array(rd, bytes, index, the_range) ==
    IF rd.cls = "CPHDReader1_0" THEN CPHDReader1_0_read_pvp_array(rd, bytes, index, the_range)
    ELSE CPHDReader0_3_read_pvp_array(rd, bytes, index, the_range)

\* scale * data of one complex sample
Scaled(e, k) == [real |-> e.real * k, imag |-> e.imag * k]

\* scale[:, numpy.newaxis] * data: numpy broadcasts the rows of the two
ScaleRows(scale, data) ==
    IF Len(scale) = Len(data)
    THEN Ret([k \in 1..Len(data) |->
                [l \in 1..Len(data[k]) |-> Scaled(data[k][l], scale[k])]])
    ELSE IF Len(data) = 1
    THEN Ret([k \in 1..Len(scale) |->
                [l \in 1..Len(data[1]) |-> Scaled(data[1][l], scale[k])]])
    ELSE Raise("ValueError")

\* CPHDReader._fetch(range1, range2, index): the chipper's data, times AmpSF
fetch(rd, bytes, range1, range2, index) ==
    LET chipper == rd.chipper[index + 1]
        r1 == validate_range(range1, chipper.shape[1])
        r2 == validate_range(range2, chipper.shape[2])
    IN  IF r1.exc # NoExc THEN r1
        ELSE IF r2.exc # NoExc THEN r2
        ELSE LET data  == Elements(bytes, chipper, RangeRows(chipper.shape[1], r1.val),
                                   RangeRows(chipper.shape[2], r2.val))
                 scale == read_pvp_variable(rd, bytes, "AmpSF", IntRef(index),
                                            TupleRange(r1.val))
             IN  IF scale.exc # NoExc THEN scale
                 ELSE IF IsNone(scale.val) THEN Ret(data)
                 ELSE IF Len(The(scale.val)) = 1
                 THEN Ret([k \in 1..Len(data) |->
                             [l \in 1..Len(data[k]) |-> Scaled(data[k][l], The(scale.val)[1])]])
                 ELSE ScaleRows(The(scale.val), data)

\* CPHDReader.read_chip(dim1range, dim2range, index), that is __call__
read_chip(rd, bytes, dim1range, dim2range, index) ==
    LET int_index == validate_index(rd, index)
    IN  IF int_index.exc # NoExc THEN int_index
        ELSE IF (int_index.val + 1) \notin DOMAIN rd.chipper THEN Raise("IndexError")
        ELSE fetch(rd, bytes, dim1range, dim2range, int_index.val)

\* CPHDReader1_0.read_support_array: the entry an index names; a list is
\* indexed as python indexes it, from the end when the ordinal is negative
support_entry(meta, index) ==
    IF IsNone(meta.SupportArrays) THEN Raise("TypeError")
    ELSE LET list == The(meta.SupportArrays)
         IN  IF index.t = "int"
             THEN IF 0 <= index.i /\ index.i < Len(list) THEN Ret(list[index.i + 1])
                  ELSE IF -Len(list) <= index.i /\ index.i < 0
                  THEN Ret(list[Len(list) + index.i + 1])
                  ELSE Raise("IndexError")
             ELSE LET at == {i \in 1..Len(list) : list[i].Identifier = index.s}
                  IN  IF at = {} THEN Raise("KeyError")
                      ELSE Ret(list[CHOOSE i \in at : \A j \in at : i <= j])

\* a resolved range that asks for the elements from the last one backward
from_end(r) == r[1] = -1 /\ r[3] < 0

\* the four slices of read_support_array, without the two that treat one axis
\* alone
support_slice_both_or_neither(nrows, ncols, range1, range2) ==
    IF from_end(range1) /\ from_end(range2)
    THEN <<PySlice(nrows, range1[1], None, range1[3]), PySlice(ncols, range2[1], None, range2[3])>>
    ELSE <<PySlice(nrows, range1[1], Some(range1[2]), range1[3]),
           PySlice(ncols, range2[1], Some(range2[2]), range2[3])>>

\* CPHDReader1_0.read_support_array: the rows and columns its four slices of
\* the map select
support_slice(nrows, ncols, range1, range2) ==
    IF from_end(range1) /\ from_end(range2)
    THEN <<PySlice(nrows, range1[1], None, range1[3]), PySlice(ncols, range2[1], None, range2[3])>>
    ELSE IF from_end(range1)
    THEN <<PySlice(nrows, range1[1], None, range1[3]),
           PySlice(ncols, range2[1], Some(range2[2]), range2[3])>>
    ELSE IF from_end(range2)
    THEN <<PySlice(nrows, range1[1], Some(range1[2]), range1[3]),
           PySlice(ncols, range2[1], None, range2[3])>>
    ELSE <<PySlice(nrows, range1[1], Some(range1[2]), range1[3]),
           PySlice(ncols, range2[1], Some(range2[2]), range2[3])>>

\* CPHDReader1_0.read_support_array(index, dim1_range, dim2_range)
CPHDReader1_0_read_support_array(rd, bytes, index, dim1_range, dim2_range) ==
    LET the_entry == support_entry(cphd_meta_of(rd), index)
    IN  IF the_entry.exc # NoExc THEN the_entry
        ELSE LET range1  == validate_range(dim1_range, the_entry.val.NumRows)
                 range2  == validate_range(dim2_range, the_entry.val.NumCols)
                 mem_map == MemMap(cphd_header_of(rd).SUPPORT_BLOCK_BYTE_OFFSET
                                       + the_entry.val.ArrayByteOffset,
                                   <<the_entry.val.NumRows, the_entry.val.NumCols>>,
                                   get_numpy_format(the_entry.val))
             IN  IF range1.exc # NoExc THEN range1
                 ELSE IF range2.exc # NoExc THEN range2
                 ELSE IF ~Mappable(bytes, mem_map) THEN Raise("ValueError")
                 ELSE LET data == support_slice(the_entry.val.NumRows, the_entry.val.NumCols,
                                                range1.val, range2.val)
                      IN  Ret(Elements(bytes, mem_map, data[1], data[2]))

\* read_support_array(index, dim1_range, dim2_range), of the reader's class
read_support_array(rd, bytes, index, dim1_range, dim2_range) ==
    IF rd.cls = "CPHDReader1_0"
    THEN CPHDReader1_0_read_support_array(rd, bytes, index, dim1_range, dim2_range)
    ELSE Raise("TypeError")

\* a dict built from the reads of the listed identifiers: the first read that
\* raises ends the call
ReadAll(ids, read(_)) ==
    LET failed == {k \in 1..Len(ids) : read(ids[k]).exc # NoExc}
    IN  IF failed # {} THEN Raise(read(ids[CHOOSE k \in failed : \A j \in failed : k <= j]).exc)
        ELSE Ret([id \in Range(ids) |-> read(id).val])

\* the ordinals 0 .. n-1 as references
Ordinals(n) == [k \in 1..n |-> IntRef(k - 1)]

\* a list built from the reads of the listed channels
ReadList(refs, read(_)) ==
    LET failed == {k \in 1..Len(refs) : read(refs[k]).exc # NoExc}
    IN  IF failed # {} THEN Raise(read(refs[CHOOSE k \in failed : \A j \in failed : k <= j]).exc)
        ELSE Ret([k \in 1..Len(refs) |-> read(refs[k]).val])

\* read_pvp_block(): 1.0 a dict by identifier, 0.3 a list by ordinal
read_pvp_block(rd, bytes) ==
    IF rd.cls = "CPHDReader1_0"
    THEN LET read(id) == CPHDReader1_0_read_pvp_array(rd, bytes, StrRef(id), NoRange)
         IN  ReadAll(ChannelIds(cphd_meta_of(rd)), read)
    ELSE LET read(chan) == CPHDReader0_3_read_pvp_array(rd, bytes, chan, NoRange)
         IN  ReadList(Ordinals(cphd_meta_of(rd).NumCPHDChannels), read)

\* read_signal_block()
read_signal_block(rd, bytes) ==
    IF rd.cls = "CPHDReader1_0"
    THEN LET read(id) == read_chip(rd, bytes, NoRange, NoRange, StrRef(id))
         IN  ReadAll(ChannelIds(cphd_meta_of(rd)), read)
    ELSE LET read(chan) == read_chip(rd, bytes, NoRange, NoRange, chan)
         IN  ReadList(Ordinals(cphd_meta_of(rd).NumCPHDChannels), read)

\* read_support_block(): 'if self.cphd_meta.Data.SupportArrays:' else {}
read_support_block(rd, bytes) ==
    IF rd.cls = "CPHDReader1_0"
    THEN LET read(id) == CPHDReader1_0_read_support_array(rd, bytes, StrRef(id), NoRange, NoRange)
         IN  IF SupportList(cphd_meta_of(rd)) = <<>> THEN Ret(EmptyMap)
             ELSE ReadAll(SupportIds(cphd_meta_of(rd)), read)
    ELSE Raise("TypeError")

-----------------------------------------------------------------------------
(* The calls a user of a reader makes. *)

\* a read and what it returned
Read(op, variable, index, range1, range2, out) ==
    [op |-> op, variable |-> variable, index |-> index, range1 |-> range1,
     range2 |-> range2, exc |-> out.exc, val |-> out.val]

NoResult == Read("none", "", IntRef(0), NoRange, NoRange, Ret(0))

\* the channel references a read is addressed with: ordinals in and out of
\* range, names, and a string that is a decimal numeral
ChannelReadRefs == {IntRef(n) : n \in (-1)..2} \cup {StrRef(x) : x \in {"A", "B", "Z", "1"}}

\* the support array references a read is addressed with
SupportReadRefs == {IntRef(n) : n \in (-1)..2} \cup {StrRef(x) : x \in {"S", "T", "Z"}}

\* the ranges a read is called with on its first axis: all, one row, from the
\* first row, from the last row backward, and past the end
ReaderRanges == {NoRange, IntRange(1), TupleRange(<<0, 1>>), TupleRange(<<-1, -1, -1>>),
                 TupleRange(<<0, 3, 1>>)}

\* the ranges a read is called with on its second axis
ColumnRanges == {NoRange, TupleRange(<<-1, -1, -1>>)}

\* the PVP fields asked for
Variables == {"TxTime", "AmpSF"}

\* the arguments a reader is constructed from: the path of the file, or the
\* CPHDDetails of the file when those can be made
ReaderArgs(f) == {PathArg(f)} \cup (IF CPHDDetails(f).exc = NoExc THEN {DetailsArg(f)} ELSE {})

\* a construction: the constructor called and the type of its argument
Opened(op, cphd_details) ==
    Read(op, cphd_details.t, IntRef(0), NoRange, NoRange, Ret(0))

\* CPHDReader(cphd_details)
OpenReader ==
    /\ reader.pc = "none"
    /\ \E cphd_details \in ReaderArgs(file) :
          /\ reader' = CPHDReader_new(cphd_details)
          /\ result' = Opened("CPHDReader", cphd_details)
    /\ UNCHANGED <<file, wside>>

\* CPHDReader1_0(cphd_details)
OpenReader1_0 ==
    /\ reader.pc = "none"
    /\ \E cphd_details \in ReaderArgs(file) :
          /\ reader' = CPHDReader1_0_init(cphd_details)
          /\ result' = Opened("CPHDReader1_0", cphd_details)
    /\ UNCHANGED <<file, wside>>

\* CPHDReader0_3(cphd_details)
OpenReader0_3 ==
    /\ reader.pc = "none"
    /\ \E cphd_details \in ReaderArgs(file) :
          /\ reader' = CPHDReader0_3_init(cphd_details)
          /\ result' = Opened("CPHDReader0_3", cphd_details)
    /\ UNCHANGED <<file, wside>>

\* is_a(file_name)
IsA ==
    /\ reader.pc = "none"
    /\ reader' = is_a(file)
    /\ result' = Opened("is_a", PathArg(file))
    /\ UNCHANGED <<file, wside>>

\* a read that forgets the version the reader parsed
after_read_version_lost(rd) ==
    [rd EXCEPT !.cphd_details = Some([The(@) EXCEPT !.cphd_version = <<>>])]

\* the reader after one of its read methods: none of them assigns an attribute
\* of the reader or of its CPHDDetails
after_read(rd) == rd

ReadPvpVariable ==
    /\ reader.pc = "open"
    /\ \E variable \in Variables, index \in ChannelReadRefs, the_range \in ReaderRanges :
          result' = Read("read_pvp_variable", variable, index, the_range, NoRange,
                         read_pvp_variable(reader, file.bytes, variable, index, the_range))
    /\ reader' = after_read(reader)
    /\ UNCHANGED <<file, wside>>

ReadPvpArray ==
    /\ reader.pc = "open"
    /\ \E index \in ChannelReadRefs, the_range \in ReaderRanges :
          result' = Read("read_pvp_array", "", index, the_range, NoRange,
                         read_pvp_array(reader, file.bytes, index, the_range))
    /\ reader' = after_read(reader)
    /\ UNCHANGED <<file, wside>>

ReadChip ==
    /\ reader.pc = "open"
    /\ \E index \in ChannelReadRefs, dim1range \in ReaderRanges, dim2range \in ColumnRanges :
          result' = Read("read_chip", "", index, dim1range, dim2range,
                         read_chip(reader, file.bytes, dim1range, dim2range, index))
    /\ reader' = after_read(reader)
    /\ UNCHANGED <<file, wside>>

ReadSupportArray ==
    /\ reader.pc = "open"
    /\ \E index \in SupportReadRefs, dim1_range \in ReaderRanges, dim2_range \in ColumnRanges :
          result' = Read("read_support_array", "", index, dim1_range, dim2_range,
                         read_support_array(reader, file.bytes, index, dim1_range, dim2_range))
    /\ reader' = after_read(reader)
    /\ UNCHANGED <<file, wside>>

ReadPvpBlock ==
    /\ reader.pc = "open"
    /\ result' = Read("read_pvp_block", "", IntRef(0), NoRange, NoRange,
                      read_pvp_block(reader, file.bytes))
    /\ reader' = after_read(reader)
    /\ UNCHANGED <<file, wside>>

ReadSignalBlock ==
    /\ reader.pc = "open"
    /\ result' = Read("read_signal_block", "", IntRef(0), NoRange, NoRange,
                      read_signal_block(reader, file.bytes))
    /\ reader' = after_read(reader)
    /\ UNCHANGED <<file, wside>>

ReadSupportBlock ==
    /\ reader.pc = "open"
    /\ result' = Read("read_support_block", "", IntRef(0), NoRange, NoRange,
                      read_support_block(reader, file.bytes))
    /\ reader' = after_read(reader)
    /\ UNCHANGED <<file, wside>>

(* The files a reader is opened on. *)

\* the bytes after every map of the list is filled with its array
RECURSIVE Store(_, _, _)
Store(bytes, maps, arrays) ==
    IF maps = <<>> THEN bytes
    ELSE Store(MemMapAssign(bytes, Head(maps), 0, 0, Head(arrays)), Tail(maps), Tail(arrays))

\* a version 1.0 file of the given metadata tree, every entry holding its own data
File1_0(meta, version, v) ==
    LET header == make_file_header(meta)
        ch     == InitChannels(meta, header, Len(meta.Channels))
        su     == InitSupport(meta, header, Len(SupportList(meta)))
        ids    == ChannelIds(meta)
        sids   == SupportIds(meta)
        pvp    == PvpItems(meta, ids, v)
        sig    == SignalItems(meta, ids, v)
        sup    == SupportItems(meta, sids, v)
        b0     == GrowTo(EmptyMap, Max(ch.extent, su.extent))
        b1     == Store(b0, [i \in 1..Len(ids) |-> ch.pvp_memmaps[ids[i]]],
                        [i \in 1..Len(ids) |-> pvp[i][2]])
        b2     == Store(b1, [i \in 1..Len(ids) |-> ch.signal_memmaps[ids[i]]],
                        [i \in 1..Len(ids) |-> sig[i][2]])
        b3     == Store(b2, [i \in 1..Len(sids) |-> su.support_memmaps[sids[i]]],
                        [i \in 1..Len(sids) |-> sup[i][2]])
    IN  [exists |-> TRUE, isfile |-> TRUE, sig |-> Signature, version |-> version,
         hdr |-> Some(header),
         xml |-> Some(meta), bytes |-> b3]

\* the CPHD 0.3 metadata tree (cphd0_3_elements.CPHD.CPHDType), as far as the
\* reader reads it: sizes is the (NumVectors, NumSamples) of each channel
Meta0_3(sizes, fields, sample_type) ==
    [NumCPHDChannels  |-> Len(sizes),
     ArraySize        |-> [i \in 1..Len(sizes) |->
                              [NumVectors |-> sizes[i][1], NumSamples |-> sizes[i][2]]],
     NumBytesVBP      |-> SumSeq([i \in 1..Len(fields) |-> fields[i].size]),
     SampleType       |-> sample_type,
     VectorParameters |-> fields]

\* a version 0.3 file: the vector block, every channel's records after those of
\* the channel before it, then the signal block laid out in the same way
File0_3(meta, version, v) ==
    LET n       == Len(meta.ArraySize)
        recsize == meta.NumBytesVBP
        vbOff   == n
        nvBefore(i) == SumSeq([j \in 1..(i - 1) |-> meta.ArraySize[j].NumVectors])
        pxBefore(i) == SumSeq([j \in 1..(i - 1) |->
                                 meta.ArraySize[j].NumVectors * meta.ArraySize[j].NumSamples])
        sigOff  == vbOff + nvBefore(n + 1) * recsize
        pmaps   == [i \in 1..n |-> MemMap(vbOff + nvBefore(i) * recsize,
                                          <<meta.ArraySize[i].NumVectors, 1>>,
                                          get_vector_dtype_0_3(meta))]
        smaps   == [i \in 1..n |-> MemMap(sigOff + pxBefore(i) * 2,
                                          <<meta.ArraySize[i].NumVectors,
                                            meta.ArraySize[i].NumSamples>>, RawPair(1))]
        b0      == GrowTo(EmptyMap, sigOff + pxBefore(n + 1) * 2)
        b1      == Store(b0, pmaps,
                         [i \in 1..n |-> NdArray(1, meta.ArraySize[i].NumVectors, 1,
                                                 get_vector_dtype_0_3(meta), v + i)])
        b2      == Store(b1, smaps,
                         [i \in 1..n |-> NdArray(2, meta.ArraySize[i].NumVectors,
                                                 meta.ArraySize[i].NumSamples,
                                                 RawPair(1), v + i)])
    IN  [exists |-> TRUE, isfile |-> TRUE, sig |-> Signature, version |-> version,
         hdr |-> Some([CPHD_BYTE_OFFSET |-> sigOff, VB_BYTE_OFFSET |-> vbOff]),
         xml |-> Some(meta), bytes |-> b2]

\* a directory at the path
Directory == [NoFile EXCEPT !.exists = TRUE]

\* the files the readers are opened on: version 1.0 and 0.3 files of two
\* channels, with and without AmpSF and support arrays, a file of a later
\* version, a 1.0 file cut off after its metadata, 1.0 files whose first lines
\* are 'CPHDX/1.0' and 'CPHD/1.0/x', a file that is no CPHD file, a directory,
\* and no file
ReaderFiles ==
    {File1_0(MkMeta(<<2, 1>>, 2, sup, pvp, "CI2", 1, "packed"), version, 1) :
        sup \in {None, Some(<< <<1, 2>>, <<2, 1>> >>)},
        pvp \in {<<TxTimeField>>, <<TxTimeField, AmpSFField>>},
        version \in {Version1_0, Version1_0 \o <<".", "1">>}}
    \cup
    {File0_3(Meta0_3(<< <<2, 2>>, <<1, 2>> >>, pvp, "RE08I_IM08I"), Version0_3, 1) :
        pvp \in {<<TxTimeField>>, <<TxTimeField, AmpSFField>>}}
    \cup
    {[File1_0(MkMeta(<<1>>, 1, None, <<TxTimeField>>, "CI2", 1, "packed"), Version1_0, 1)
         EXCEPT !.version = <<"2", ".", "0">>],
     [File1_0(MkMeta(<<1>>, 1, None, <<TxTimeField>>, "CI2", 1, "packed"), Version1_0, 1)
         EXCEPT !.bytes = EmptyMap],
     [File1_0(MkMeta(<<1>>, 1, None, <<TxTimeField>>, "CI2", 1, "packed"), Version1_0, 1)
         EXCEPT !.sig = Signature \o <<"X">>],
     [File1_0(MkMeta(<<1>>, 1, None, <<TxTimeField>>, "CI2", 1, "packed"), Version1_0, 1)
         EXCEPT !.sig = Signature \o <<"/", "1", ".", "0">>, !.version = <<"x">>],
     OldFile, Directory, NoFile}

\* the writer before construction
NoWriter ==
    /\ pc = "new"
    /\ cphd_meta = NoMeta
    /\ cphd_header = make_file_header(NoMeta)
    /\ pvp_memmaps = EmptyMap
    /\ signal_memmaps = EmptyMap
    /\ support_memmaps = EmptyMap
    /\ channel_map = EmptyMap
    /\ support_map = EmptyMap
    /\ writing_state = NoWritingState
    /\ closed = FALSE
    /\ last = NoCall
    /\ close_called = FALSE
    /\ covered = {}
    /\ threads = NoThreads

Init ==
    /\ NoWriter
    /\ file \in {NoFile, OldFile}
    /\ reader = NoReader
    /\ result = NoResult

\* a writer is constructed and written entry by entry
Construct == \E meta \in WriterMetas, check_existence \in BOOLEAN :
                CPHDWriter1_0_init(meta, check_existence)

Next ==
    \/ Construct
    \/ WritePvpBlock
    \/ WriteChip
    \/ WriteSupportBlock
    \/ close

Spec == Init /\ [][Next]_vars

\* a writer is constructed and written in bulk
ConstructBulk == \E meta \in BulkMetas, check_existence \in BOOLEAN :
                    CPHDWriter1_0_init(meta, check_existence)

NextBulk ==
    \/ ConstructBulk
    \/ WriteFile
    \/ close

SpecBulk == Init /\ [][NextBulk]_vars

\* the metadata trees of the writers two threads write to: two channels and two
\* support arrays, in a consistent layout and in one whose regions overlap
ThreadMetas ==
    {MkMeta(<<2, 1>>, 1, Some(<< <<1, 2>>, <<1, 1>> >>), <<TxTimeField>>, "CI2", 1, layout) :
        layout \in {"packed", "overlap"}}

\* a writer is constructed and two threads each make one write call on it
ConstructThreads == \E meta \in ThreadMetas : CPHDWriter1_0_init(meta, FALSE)

NextThreads ==
    \/ ConstructThreads
    \/ StartThreads
    \/ \E t \in 1..2 : Validate(t)
    \/ \E t \in 1..2 : Assign(t)
    \/ \E t \in 1..2 : Load(t)
    \/ \E t \in 1..2 : StoreCounter(t)

SpecThreads == Init /\ [][NextThreads]_vars


\* the metadata trees of the round trips: one or two channels, no, one or two
\* support arrays, with and without AmpSF, in the layouts whose PVP records
\* stay aligned
RoundTripMetas ==
    {MkMeta(nvs, 1, sup, pvp, "CI2", 1, layout) :
        nvs \in {<<2>>, <<2, 1>>},
        sup \in {None, Some(<< <<1, 2>> >>), Some(<< <<1, 2>>, <<1, 1>> >>)},
        pvp \in {<<TxTimeField>>, <<TxTimeField, AmpSFField>>},
        layout \in {"packed", "reversed", "overlap"}}

\* a writer is constructed, the file is written in bulk and read back
ConstructRoundTrip == \E meta \in RoundTripMetas, check_existence \in BOOLEAN :
                         CPHDWriter1_0_init(meta, check_existence)

NextRoundTrip ==
    \/ ConstructRoundTrip
    \/ WriteFile
    \/ OpenReader
    \/ ReadPvpBlock
    \/ ReadSignalBlock
    \/ ReadSupportBlock

SpecRoundTrip == Init /\ [][NextRoundTrip]_vars

\* a reader is opened on a file found on disk
InitReader ==
    /\ NoWriter
    /\ file \in ReaderFiles
    /\ reader = NoReader
    /\ result = NoResult

NextReader ==
    \/ OpenReader
    \/ OpenReader1_0
    \/ OpenReader0_3
    \/ IsA
    \/ ReadPvpVariable
    \/ ReadPvpArray
    \/ ReadChip
    \/ ReadSupportArray
    \/ ReadPvpBlock
    \/ ReadSignalBlock
    \/ ReadSupportBlock

SpecReader == InitReader /\ [][NextReader]_vars

-----------------------------------------------------------------------------
(* What the specification says of the writer, stated on the model. *)

\* the entities whose written counter is below the declared total, as the lines
\* of a report
Shortfalls(meta, ws) ==
    {ReportLine("pvp", e.Identifier, ws.pvp[e.Identifier], e.NumVectors) :
        e \in {c \in Range(meta.Channels) : ws.pvp[c.Identifier] < c.NumVectors}}
    \cup
    {ReportLine("signal", e.Identifier, ws.signal[e.Identifier], e.NumVectors * e.NumSamples) :
        e \in {c \in Range(meta.Channels) :
                  ws.signal[c.Identifier] < c.NumVectors * c.NumSamples}}
    \cup
    {ReportLine("support", e.Identifier, ws.support[e.Identifier], e.NumRows * e.NumCols) :
        e \in {c \in Range(SupportList(meta)) :
                  ws.support[c.Identifier] < c.NumRows * c.NumCols}}

\* C1: a first close() of a writer all of whose channels and support arrays are
\* written to their declared totals returns without raising, whether or not the
\* metadata declares support arrays.
C1_FullyWrittenCloseReturns ==
    (last.op = "close" /\ ~last.again /\ Shortfalls(cphd_meta, writing_state) = {})
        => last.exc = NoExc

\* C2: a first close() raises the incomplete-write error whenever some channel or
\* support array is written short of its declared total, and its report names
\* exactly the entities that are short, each with its written and declared count.
C2_ShortfallFailsAndIsReported ==
    (last.op = "close" /\ ~last.again)
        => /\ Shortfalls(cphd_meta, writing_state) # {} => last.exc = "IOError"
           /\ last.checked
           /\ last.report = Shortfalls(cphd_meta, writing_state)

\* a first close() that found two entities short, one of them partly written
C2_Witness ==
    /\ last.op = "close" /\ ~last.again /\ last.exc = "IOError"
    /\ Cardinality(last.report) >= 2
    /\ \E line \in last.report : line.written > 0

\* C3: once close() has been called, every later close() returns without raising
\* and runs no completeness check ...
C3_LaterCloseReturns ==
    (last.op = "close" /\ last.again) => (last.exc = NoExc /\ ~last.checked)

\* ... and changes no writer state.
C3_LaterCloseChangesNothing ==
    (close_called /\ last'.op = "close") => UNCHANGED wvars

\* C3: close() is idempotent.
C3_CloseIdempotent == [](C3_LaterCloseReturns) /\ [][C3_LaterCloseChangesNothing]_vars

\* a second close() after a first one that raised
C3_Witness ==
    /\ last.op = "close" /\ last.again /\ closed
    /\ Shortfalls(cphd_meta, writing_state) # {}

\* the channel / support entry a reference resolves to (None when it does not)
ChannelOf(ref) ==
    IF ref.t = "str"
    THEN LET at == {i \in 1..Len(cphd_meta.Channels) : cphd_meta.Channels[i].Identifier = ref.s}
         IN  IF at = {} THEN None ELSE Some(cphd_meta.Channels[CHOOSE i \in at : TRUE])
    ELSE IF ref.i >= 0 /\ ref.i < Len(cphd_meta.Channels)
         THEN Some(cphd_meta.Channels[ref.i + 1]) ELSE None

SupportOf(ref) ==
    LET list == SupportList(cphd_meta)
    IN  IF ref.t = "str"
        THEN LET at == {i \in 1..Len(list) : list[i].Identifier = ref.s}
             IN  IF at = {} THEN None ELSE Some(list[CHOOSE i \in at : TRUE])
        ELSE IF ref.i >= 0 /\ ref.i < Len(list) THEN Some(list[ref.i + 1]) ELSE None

\* a start index is negative, or start + extent is past the declared extent
OutOfExtent(start, count, declared) == start < 0 \/ start + count > declared

\* the call failed and left the bytes of the file and the counters as they were
Rejected(out) == out.exc # NoExc /\ out.bytes = file.bytes /\ out.ws = writing_state

\* C4: a write_pvp, write_signal or write_support call with a negative start index
\* or with start + extent past the entry's declared extent on some axis fails and
\* leaves every block region and every written counter as it was.
C4_OutOfExtentWriteRejected ==
    pc = "open" =>
        /\ \A ref \in ChannelRefs, data \in PvpArrays, start \in StartRows :
              (/\ ~IsNone(ChannelOf(ref))
               /\ OutOfExtent(start, data.shape[1], The(ChannelOf(ref)).NumVectors))
              => Rejected(write_pvp_block(file.bytes, writing_state, ref, data, start))
        /\ \A ref \in ChannelRefs, data \in SignalArrays, start \in SignalStarts :
              (/\ ~IsNone(ChannelOf(ref))
               /\ \/ OutOfExtent(start[1], data.shape[1], The(ChannelOf(ref)).NumVectors)
                  \/ OutOfExtent(start[2], data.shape[2], The(ChannelOf(ref)).NumSamples))
              => Rejected(write_chip(file.bytes, writing_state, data, start, ref))
        /\ \A ref \in SupportRefs, data \in SupportArrays, start \in SupportStarts :
              (/\ ~IsNone(SupportOf(ref))
               /\ \/ OutOfExtent(start[1], data.shape[1], The(SupportOf(ref)).NumRows)
                  \/ OutOfExtent(start[2], data.shape[2], The(SupportOf(ref)).NumCols))
              => Rejected(write_support_block(file.bytes, writing_state, ref, data, start))

\* a write rejected for its indices on a writer that holds written data
C4_Witness ==
    /\ last.op \in {"write_pvp", "write_signal", "write_support"}
    /\ last.exc = "IndexError"
    /\ \E id \in DOMAIN writing_state.pvp : writing_state.pvp[id] > 0

\* the relative offsets of a block, sorted ascending, start at 0 and each equals
\* the running total of the sizes of the entries before it
OffsetsConsistent(offs, sizes) ==
    /\ \A i \in 1..Len(offs) :
          offs[i] = SumSeq([j \in 1..Len(offs) |-> IF offs[j] < offs[i] THEN sizes[j] ELSE 0])
    /\ \A i, j \in 1..Len(offs) : i # j => offs[i] # offs[j]

LayoutConsistent(meta) ==
    /\ OffsetsConsistent([i \in 1..Len(meta.Channels) |-> meta.Channels[i].PVPArrayByteOffset],
                         [i \in 1..Len(meta.Channels) |-> PVPEntryBytes(meta, meta.Channels[i])])
    /\ OffsetsConsistent([i \in 1..Len(meta.Channels) |-> meta.Channels[i].SignalArrayByteOffset],
                         [i \in 1..Len(meta.Channels) |->
                            SignalEntryBytes(meta, meta.Channels[i])])
    /\ OffsetsConsistent([i \in 1..Len(SupportList(meta)) |->
                            SupportList(meta)[i].ArrayByteOffset],
                         [i \in 1..Len(SupportList(meta)) |->
                            SupportEntryBytes(SupportList(meta)[i])])

\* C5: write_file fails, before writing any block data, when the declared
\* relative offsets of a block are not consistent.
C5_BulkRejectsInconsistentLayout ==
    [][(last'.op = "write_file" /\ ~LayoutConsistent(cphd_meta))
          => (last'.exc # NoExc /\ file' = file)]_vars

\* the keys of the three dicts are exactly the declared identifiers
KeysMatch(meta, blocks) ==
    /\ Range(Keys(blocks[1])) = Range(ChannelIds(meta))
    /\ Range(Keys(blocks[2])) = Range(ChannelIds(meta))
    /\ Range(Keys(blocks[3])) = Range(SupportIds(meta))

\* C6: write_file fails, writing no block data, when a dict has an undeclared
\* key or lacks a declared identifier.
C6_BulkRejectsKeyMismatch ==
    [][(last'.op = "write_file" /\ ~KeysMatch(cphd_meta, last'.blocks))
          => (last'.exc # NoExc /\ file' = file)]_vars

\* C7: when write_file returns, the completeness check has run and the writer is
\* closed.
C7_BulkFinalizes ==
    (last.op = "write_file" /\ last.exc = NoExc) => closed

-----------------------------------------------------------------------------
(* What the specification says of the readers, stated on the model. *)

\* the rows of an array handed to the writer, as a read returns them
AsRecords(data) == [k \in 1..data.shape[1] |-> data.cells[<<k - 1, 0>>]]
AsRows(data) ==
    [k \in 1..data.shape[1] |-> [l \in 1..data.shape[2] |-> data.cells[<<k - 1, l - 1>>]]]

\* a full-block read returned, under every key of the dict supplied and under
\* no other, the data supplied under that key
ReturnedRecords(out, items) ==
    /\ out.exc = NoExc
    /\ DOMAIN out.val = Range(Keys(items))
    /\ \A k \in 1..Len(items) : out.val[items[k][1]] = AsRecords(items[k][2])

ReturnedRows(out, items) ==
    /\ out.exc = NoExc
    /\ DOMAIN out.val = Range(Keys(items))
    /\ \A k \in 1..Len(items) : out.val[items[k][1]] = AsRows(items[k][2])

\* the last call on the writer was a bulk write of complete data that returned
CompleteBulkWrite ==
    /\ last.op = "write_file"
    /\ last.exc = NoExc
    /\ KeysMatch(cphd_meta, last.blocks)

\* the reader's maps lie where the writer's maps lie, with the same shapes
SameRegions ==
    /\ \A id \in DOMAIN pvp_memmaps :
          /\ The(reader.pvp_memmap)[id].offset = pvp_memmaps[id].offset
          /\ The(reader.pvp_memmap)[id].shape = pvp_memmaps[id].shape
    /\ \A i \in 1..Len(cphd_meta.Channels) :
          /\ reader.chipper[i].offset = signal_memmaps[cphd_meta.Channels[i].Identifier].offset
          /\ reader.chipper[i].shape = signal_memmaps[cphd_meta.Channels[i].Identifier].shape
    /\ \A id \in DOMAIN support_memmaps :
          /\ The(reader.support_array_memmap)[id].offset = support_memmaps[id].offset
          /\ The(reader.support_array_memmap)[id].shape = support_memmaps[id].shape

\* C8: after a bulk write of complete PVP, signal and support data, a 1.0 reader
\* opened on the file returns from the three full-block reads, for every declared
\* identifier, exactly the data supplied under it, and addresses every entry at
\* the writer's absolute offset with the writer's shape.
C8_RoundTrip ==
    (CompleteBulkWrite /\ reader.pc = "open") =>
        /\ ReturnedRecords(read_pvp_block(reader, file.bytes), last.blocks[1])
        /\ ReturnedRows(read_signal_block(reader, file.bytes), last.blocks[2])
        /\ ReturnedRows(read_support_block(reader, file.bytes), last.blocks[3])
        /\ SameRegions

\* C9: in the 1.0 reader, read_chip, read_pvp_variable and read_pvp_array called
\* with the ordinal of a channel return what they return called with its
\* identifier, for every range, and read_support_array called with the ordinal of
\* a support array returns what it returns called with its identifier.
C9_OrdinalAndIdentifierAgree ==
    (reader.pc = "open" /\ reader.cls = "CPHDReader1_0") =>
        /\ \A i \in 1..Len(cphd_meta_of(reader).Channels) :
              LET s == StrRef(cphd_meta_of(reader).Channels[i].Identifier)
                  o == IntRef(i - 1)
              IN  /\ \A r1 \in ReaderRanges, r2 \in ColumnRanges :
                        read_chip(reader, file.bytes, r1, r2, o)
                            = read_chip(reader, file.bytes, r1, r2, s)
                  /\ \A variable \in Variables, r1 \in ReaderRanges :
                        read_pvp_variable(reader, file.bytes, variable, o, r1)
                            = read_pvp_variable(reader, file.bytes, variable, s, r1)
                  /\ \A r1 \in ReaderRanges :
                        read_pvp_array(reader, file.bytes, o, r1)
                            = read_pvp_array(reader, file.bytes, s, r1)
        /\ \A j \in 1..Len(SupportList(cphd_meta_of(reader))) :
              \A r1 \in ReaderRanges, r2 \in ColumnRanges :
                  read_support_array(reader, file.bytes, IntRef(j - 1), r1, r2)
                      = read_support_array(reader, file.bytes,
                            StrRef(SupportList(cphd_meta_of(reader))[j].Identifier), r1, r2)

\* a 1.0 reader has read the signal of the second channel by its identifier and
\* got the samples the ordinal 1 gives
C9_Witness ==
    /\ reader.pc = "open" /\ reader.cls = "CPHDReader1_0"
    /\ result.op = "read_chip" /\ result.index = StrRef("B")
    /\ result.exc = NoExc /\ result.val # <<>>
    /\ result.val = read_chip(reader, file.bytes, result.range1, result.range2, IntRef(1)).val

\* the reads that take a channel reference
ChannelReads == {"read_chip", "read_pvp_variable", "read_pvp_array"}

\* the read that `result` records, made with another channel reference
SameReadWith(index) ==
    CASE result.op = "read_chip" ->
            read_chip(reader, file.bytes, result.range1, result.range2, index)
      [] result.op = "read_pvp_variable" ->
            read_pvp_variable(reader, file.bytes, result.variable, index, result.range1)
      [] OTHER ->
            read_pvp_array(reader, file.bytes, index, result.range1)

Outcome == [exc |-> result.exc, val |-> result.val]

\* the number of channels of the file the reader is opened on
ChannelCount ==
    IF reader.cls = "CPHDReader1_0" THEN Len(cphd_meta_of(reader).Channels)
    ELSE cphd_meta_of(reader).NumCPHDChannels

-----------------------------------------------------------------------------
(* What the specification says of the readers' references, stated on the model. *)

\* the reads of the 1.0 reader that take a channel or support array reference
ReferenceReads == ChannelReads \cup {"read_support_array"}

\* the number of entries a reference of the recorded read is resolved among
EntryCount ==
    IF result.op = "read_support_array" THEN Len(SupportList(cphd_meta_of(reader)))
    ELSE Len(cphd_meta_of(reader).Channels)

\* the identifiers a reference of the recorded read is resolved among
EntryIds ==
    IF result.op = "read_support_array" THEN Range(SupportIds(cphd_meta_of(reader)))
    ELSE Range(ChannelIds(cphd_meta_of(reader)))

\* C11: every read of the 1.0 reader that takes a channel or support array
\* reference fails with KeyError when the reference is a string that names no
\* entry, and with ValueError or IndexError when it is an ordinal outside
\* [0, count), a negative one included, and returns no data in either case.
C11_BadReferenceFails ==
    (reader.pc = "open" /\ reader.cls = "CPHDReader1_0" /\ result.op \in ReferenceReads) =>
        /\ (result.index.t = "str" /\ result.index.s \notin EntryIds)
              => (result.exc = "KeyError" /\ result.val = 0)
        /\ (result.index.t = "int" /\ ~(0 <= result.index.i /\ result.index.i < EntryCount))
              => (result.exc \in {"ValueError", "IndexError"} /\ result.val = 0)

\* what holds of the channel reads alone
C11_BadChannelReferenceFails ==
    (result.op \in ChannelReads) => C11_BadReferenceFails

-----------------------------------------------------------------------------
(* What the specification says of the construction of readers, stated on the
   model. *)

\* the file at the path is a regular file that begins with the signature
HasSignature == file.exists /\ file.isfile /\ StartsWith(file.sig, Signature)

\* C12: CPHDReader on a file whose version string starts with "0.3" selects the
\* 0.3 reader, on one whose version string starts with "1.0" ("1.0.1" too) the
\* 1.0 reader, and on a file of any other version fails with ValueError, which
\* CPHDDetails raises when it parses the file and __new__ when it selects.
C12_VersionDispatch ==
    (HasSignature /\ result.op = "CPHDReader") =>
        IF StartsWith(file.version, Version0_3) THEN reader.cls = "CPHDReader0_3"
        ELSE IF StartsWith(file.version, Version1_0) THEN reader.cls = "CPHDReader1_0"
        ELSE /\ reader.pc = "failed" /\ reader.exc = "ValueError"
             /\ reader.cls = "CPHDReader"
             /\ CPHDDetails(file).exc = "ValueError"

\* CPHDReader has opened a file of version 1.0.1 as a 1.0 reader
C12_Witness ==
    /\ result.op = "CPHDReader" /\ file.version = Version1_0 \o <<".", "1">>
    /\ reader.pc = "open" /\ reader.cls = "CPHDReader1_0"

\* the version a reader class requires of its file
RequiredVersion ==
    IF result.op = "CPHDReader1_0" THEN Version1_0 ELSE Version0_3

\* nothing of a reader is bound: no chipper, no PVP map, no support map
NothingBound(rd) ==
    /\ rd.chipper = <<>> /\ IsNone(rd.cphd_details)
    /\ IsNone(rd.channel_map) /\ IsNone(rd.pvp_memmap)
    /\ IsNone(rd.support_array_map) /\ IsNone(rd.support_array_memmap)

\* C13: CPHDReader1_0 or CPHDReader0_3, constructed from the path or from the
\* CPHDDetails of a file whose version does not start with the version the class
\* requires, fails with ValueError and binds no chipper and no PVP or support map.
C13_VersionMismatchFails ==
    (HasSignature /\ result.op \in {"CPHDReader1_0", "CPHDReader0_3"}
        /\ ~StartsWith(file.version, RequiredVersion)) =>
            /\ reader.pc = "failed" /\ reader.exc = "ValueError"
            /\ reader.cls = result.op
            /\ NothingBound(reader)

\* CPHDReader1_0 was constructed from the CPHDDetails of a 0.3 file and failed
C13_Witness ==
    /\ result.op = "CPHDReader1_0" /\ result.variable = "CPHDDetails"
    /\ StartsWith(file.version, Version0_3)
    /\ reader.pc = "failed" /\ reader.exc = "ValueError"

\* C14: is_a returns None, and raises nothing, on a path that does not exist,
\* on one that is no regular file and on a file that does not begin with the
\* signature; on a file that begins with the signature it returns the reader or
\* raises the exception that parsing the file or constructing the reader raised,
\* and never returns None.
C14_IsAReraisesParseErrors ==
    (result.op = "is_a") =>
        IF ~HasSignature THEN reader = ReturnedNone
        ELSE LET direct == CPHDReader_new(PathArg(file))
             IN  /\ reader.pc # "absent"
                 /\ reader.pc = direct.pc /\ reader.exc = direct.exc
                 /\ reader.pc = "open" => reader = direct

\* is_a has raised the ValueError of a file that begins with the signature and
\* states a version no reader handles
C14_Witness ==
    /\ result.op = "is_a" /\ HasSignature
    /\ ~version_is_handled(file.version)
    /\ reader.pc = "failed" /\ reader.exc = "ValueError"

-----------------------------------------------------------------------------
(* What the specification says of the scaling of the signal, stated on the
   model. *)

\* the ordinal of the channel the recorded read_chip names
ReadChannel == validate_index(reader, result.index).val

\* the chipper and the PVP map of that channel
ReadChipper == reader.chipper[ReadChannel + 1]
ReadPvpMap ==
    IF reader.cls = "CPHDReader1_0"
    THEN The(reader.pvp_memmap)[cphd_meta_of(reader).Channels[ReadChannel + 1].Identifier]
    ELSE The(reader.pvp_memmap)[ReadChannel + 1]

\* the recorded read_chip names a channel of the file and ranges that resolve
ReadChipResolves ==
    /\ reader.pc = "open" /\ result.op = "read_chip"
    /\ validate_index(reader, result.index).exc = NoExc
    /\ validate_range(result.range1, ReadChipper.shape[1]).exc = NoExc
    /\ validate_range(result.range2, ReadChipper.shape[2]).exc = NoExc

\* the rows and columns of the file the resolved ranges select
ReadRows == RangeRows(ReadChipper.shape[1],
                      validate_range(result.range1, ReadChipper.shape[1]).val)
ReadCols == RangeRows(ReadChipper.shape[2],
                      validate_range(result.range2, ReadChipper.shape[2]).val)

\* the raw complex samples of those rows and columns
RawRead == Elements(file.bytes, ReadChipper, ReadRows, ReadCols)

\* the row range of the recorded read runs from the last row backward
ReversedRows ==
    LET r == validate_range(result.range1, ReadChipper.shape[1]).val
    IN  r[1] = -1 /\ r[3] < 0

\* the read returned the raw samples, each row times the AmpSF of its vector
\* when the PVP records have that field
ScaleLawHolds ==
    /\ result.exc = NoExc
    /\ IF "AmpSF" \notin FieldNames(ReadPvpMap.dtype) THEN result.val = RawRead
       ELSE result.val =
              [k \in 1..Len(ReadRows) |->
                 [l \in 1..Len(ReadCols) |->
                    Scaled(RawRead[k][l],
                           MemMapElem(file.bytes, ReadPvpMap, ReadRows[k], 0)["AmpSF"])]]

\* C15: read_chip returns the raw complex samples when the PVP records have no
\* AmpSF field, and otherwise every returned row is the raw row times the AmpSF
\* of the same vector of the file, for every row range that resolves, the
\* ranges that run from the last row backward included.
C15_ScaleLaw == ReadChipResolves => ScaleLawHolds

-----------------------------------------------------------------------------
(* What the specification says of counters above the declared totals, of the
   element widths and of the independence of writes, stated on the model. *)

\* the declared totals of the entries, by block and identifier
Declared ==
    [pvp     |-> [id \in DOMAIN writing_state.pvp |->
                    (CHOOSE e \in Range(cphd_meta.Channels) : e.Identifier = id).NumVectors],
     signal  |-> [id \in DOMAIN writing_state.signal |->
                    LET e == CHOOSE c \in Range(cphd_meta.Channels) : c.Identifier = id
                    IN  e.NumVectors * e.NumSamples],
     support |-> [id \in DOMAIN writing_state.support |->
                    LET e == CHOOSE c \in Range(SupportList(cphd_meta)) : c.Identifier = id
                    IN  e.NumRows * e.NumCols]]

\* the counters, those above their declared total lowered to it
Capped(ws) ==
    LET cap(block) == [id \in DOMAIN ws[block] |->
                          IF ws[block][id] > Declared[block][id] THEN Declared[block][id]
                          ELSE ws[block][id]]
    IN  [ws EXCEPT !.pvp = cap("pvp"), !.signal = cap("signal"), !.support = cap("support")]

\* the write was done: no exception, the counter of the entry raised by the
\* count written, and a warning exactly when the counter is above the total
DoneWithWarning(out, block, id, count) ==
    /\ out.exc = NoExc
    /\ out.ws[block][id] = writing_state[block][id] + count
    /\ out.warn = (out.ws[block][id] > Declared[block][id])

\* C16: a write of elements of the declared width, within the declared extent
\* of its entry, that brings the written counter of the entry above the
\* declared total is done and logs a warning, and
\* a counter above its total changes nothing of what close() finds: the check of
\* close() gives the status and the report it gives with the counter at the total.
C16_ExcessOnlyWarns ==
    pc = "open" =>
        /\ \A ref \in ChannelRefs, data \in PvpArrays, start \in StartRows :
              LET e == The(ChannelOf(ref))
              IN  (/\ data.dtype = get_vector_dtype(cphd_meta)
                   /\ ~OutOfExtent(start, data.shape[1], e.NumVectors))
                  => DoneWithWarning(
                         write_pvp_block(file.bytes, writing_state, ref, data, start),
                         "pvp", e.Identifier, data.shape[1])
        /\ \A ref \in ChannelRefs, data \in SignalArrays, start \in SignalStarts :
              LET e == The(ChannelOf(ref))
              IN  (/\ data.dtype = binary_format_string_to_dtype(cphd_meta.SignalArrayFormat)
                   /\ ~OutOfExtent(start[1], data.shape[1], e.NumVectors)
                   /\ ~OutOfExtent(start[2], data.shape[2], e.NumSamples))
                  => DoneWithWarning(
                         write_chip(file.bytes, writing_state, data, start, ref),
                         "signal", e.Identifier, data.shape[1] * data.shape[2])
        /\ \A ref \in SupportRefs, data \in SupportArrays, start \in SupportStarts :
              (/\ ~IsNone(SupportOf(ref))
               /\ data.dtype.itemsize = The(SupportOf(ref)).BytesPerElement
               /\ ~OutOfExtent(start[1], data.shape[1], The(SupportOf(ref)).NumRows)
               /\ ~OutOfExtent(start[2], data.shape[2], The(SupportOf(ref)).NumCols))
              => DoneWithWarning(
                     write_support_block(file.bytes, writing_state, ref, data, start),
                     "support", The(SupportOf(ref)).Identifier,
                     data.shape[1] * data.shape[2])
        /\ check_fully_written(cphd_meta, writing_state, FALSE)
              = check_fully_written(cphd_meta, Capped(writing_state), FALSE)

\* a first close() has returned without raising on a writer one of whose
\* counters a write, with a warning, had brought above the declared total
C16_Witness ==
    /\ last.op = "close" /\ ~last.again /\ last.exc = NoExc
    /\ \E id \in DOMAIN writing_state.pvp : writing_state.pvp[id] > Declared.pvp[id]

\* write_pvp_block rejects records of another byte width than the PVP record
PvpWidthChecked ==
    \A ref \in ChannelRefs, data \in PvpArrays, start \in StartRows :
        data.dtype.itemsize # get_vector_dtype(cphd_meta).itemsize
            => Rejected(write_pvp_block(file.bytes, writing_state, ref, data, start))

\* the signal write rejects pixels of another byte width than the signal format
SignalWidthChecked ==
    \A ref \in ChannelRefs, data \in SignalArrays, start \in SignalStarts :
        data.dtype.itemsize # binary_format_string_to_dtype(cphd_meta.SignalArrayFormat).itemsize
            => Rejected(write_chip(file.bytes, writing_state, data, start, ref))

\* write_support_block rejects cells of another byte width than BytesPerElement
SupportWidthChecked ==
    \A ref \in SupportRefs, data \in SupportArrays, start \in SupportStarts :
        (~IsNone(SupportOf(ref)) /\ data.dtype.itemsize # The(SupportOf(ref)).BytesPerElement)
            => Rejected(write_support_block(file.bytes, writing_state, ref, data, start))

\* C17: each of the three writes compares the byte width of the elements it is
\* given with the declared one and fails, writing nothing, when they differ:
\* the record width for write_pvp_block, the bytes of a pixel for the signal
\* write, the bytes of a cell for write_support_block.
C17_WidthMismatchRejected ==
    pc = "open" => (PvpWidthChecked /\ SignalWidthChecked /\ SupportWidthChecked)

\* both threads have ended their calls
ThreadsDone == threads # NoThreads /\ threads.at = <<"done", "done">>

\* the two calls write to distinct entries: another block, or another identifier
DistinctEntries ==
    \/ threads.calls[1].block # threads.calls[2].block
    \/ threads.calls[1].id # threads.calls[2].id

\* the call of thread t and then that of thread u, one after the other, on the
\* file and the counters the threads were started on
OneAfterTheOther(t, u) ==
    write_call(write_call(Written(threads.bytes, threads.ws, FALSE), threads.calls[t]),
               threads.calls[u])

\* C18: two write calls of one writer that target distinct entries, run in any
\* interleaving of their steps on metadata whose layout is consistent, leave
\* the bytes of the file and the written counters that the two calls leave when
\* one runs after the other, in either order.
C18_DistinctEntriesIndependent ==
    (ThreadsDone /\ DistinctEntries /\ LayoutConsistent(cphd_meta)) =>
            /\ file.bytes = OneAfterTheOther(1, 2).bytes
            /\ file.bytes = OneAfterTheOther(2, 1).bytes
            /\ writing_state = OneAfterTheOther(1, 2).ws
            /\ writing_state = OneAfterTheOther(2, 1).ws

\* two calls on distinct entries have ended after running interleaved, each
\* having written its row and raised its counter
C18_Witness ==
    /\ ThreadsDone /\ DistinctEntries /\ LayoutConsistent(cphd_meta)
    /\ threads.exc = <<NoExc, NoExc>> /\ threads.mixed
    /\ file.bytes # threads.bytes
    /\ writing_state[threads.calls[1].block][threads.calls[1].id] > 0
    /\ writing_state[threads.calls[2].block][threads.calls[2].id] > 0

-----------------------------------------------------------------------------
(* What the specification says of the construction of the writer, stated on
   the model. *)

\* the construction failed and touched nothing: the file is as it was, no
\* memory map is opened, no counter is set up, the header is not written
NothingWritten ==
    /\ last'.exc = "IOError" /\ pc' = "failed"
    /\ file' = file
    /\ pvp_memmaps' = EmptyMap /\ signal_memmaps' = EmptyMap /\ support_memmaps' = EmptyMap
    /\ writing_state' = NoWritingState /\ ~writing_state'.header

\* the construction wrote the header it computed and opened the block regions
HeaderWritten ==
    /\ last'.exc = NoExc /\ pc' = "open"
    /\ file'.hdr = Some(cphd_header') /\ file'.xml = Some(cphd_meta')
    /\ writing_state'.header

\* C19, a step of the writer's construction: the header is the one computed
\* from the metadata, whether or not the construction fails; it fails with IOError
\* and touches nothing when check_existence is set and the destination exists,
\* and writes the header otherwise.
C19_ConstructionStep ==
    (pc = "new" /\ last'.op = "init") =>
        /\ cphd_header' = make_file_header(cphd_meta')
        /\ IF last'.check_existence /\ file.exists THEN NothingWritten ELSE HeaderWritten

\* C19: the construction of a writer computes the header from the metadata and,
\* with check_existence set on a destination that exists, fails with IOError
\* and leaves the file as it was, opens no block region and leaves the
\* header-written flag false.
C19_ExistingDestinationUntouched == [][C19_ConstructionStep]_vars

\* a construction with check_existence has failed on a destination that holds
\* the file another program left
C19_Witness ==
    /\ last.op = "init" /\ last.check_existence /\ last.exc = "IOError"
    /\ pc = "failed" /\ file = OldFile
    /\ cphd_header = make_file_header(cphd_meta) /\ cphd_meta # NoMeta

-----------------------------------------------------------------------------
(* What the specification says of the PVP regions of the 0.3 reader, stated
   on the model. *)

\* the regions of the list follow one another from the given offset: each
\* starts where the one before it ends
Concatenated(start, maps) ==
    \A i \in DOMAIN maps :
        maps[i].offset = IF i = 1 THEN start
                         ELSE maps[i - 1].offset + MemMapBytes(maps[i - 1])

\* no two regions of the list share a byte
Disjoint(maps) ==
    \A i, j \in DOMAIN maps :
        i < j => \/ maps[i].offset + MemMapBytes(maps[i]) <= maps[j].offset
                 \/ maps[j].offset + MemMapBytes(maps[j]) <= maps[i].offset

\* a 0.3 reader is open on a file of more than one channel
Open0_3 ==
    /\ reader.pc = "open" /\ reader.cls = "CPHDReader0_3"
    /\ Len(The(reader.pvp_memmap)) > 1

\* C20: in the 0.3 reader the PVP regions of the channels are concatenated from
\* the header's VB_BYTE_OFFSET and never overlap, channel i starting where
\* channel i-1 ends, as the signal regions do from CPHD_BYTE_OFFSET.
C20_PvpRegionsConcatenated ==
    Open0_3 =>
        /\ Concatenated(The(reader.cphd_details).cphd_header.VB_BYTE_OFFSET,
                        The(reader.pvp_memmap))
        /\ Disjoint(The(reader.pvp_memmap))

-----------------------------------------------------------------------------
(* What the specification says of the ranges of read_support, stated on the
   model. *)

\* the last of n elements, then every |stride|-th element backward down to the
\* first
BackwardFromLast(n, stride) ==
    IF n = 0 THEN <<>>
    ELSE [k \in 1..((n - 1) \div (-stride) + 1) |-> (n - 1) + (k - 1) * stride]

\* start, start + stride, ... bounded by stop
BoundedByStop(start, stop, stride) ==
    LET count == IF stride > 0 /\ stop > start THEN (stop - start - 1) \div stride + 1
                 ELSE IF stride < 0 /\ start > stop THEN (start - stop - 1) \div (-stride) + 1
                 ELSE 0
    IN  [k \in 1..count |-> start + (k - 1) * stride]

\* the elements of an axis of n elements that a resolved range selects
AxisSelection(n, r) ==
    IF r[1] = -1 /\ r[3] < 0 THEN BackwardFromLast(n, r[3])
    ELSE BoundedByStop(r[1], r[2], r[3])

\* the support array the recorded read_support_array names, and its map
ReadSupportEntry == support_entry(cphd_meta_of(reader), result.index).val
ReadSupportMap ==
    MemMap(cphd_header_of(reader).SUPPORT_BLOCK_BYTE_OFFSET + ReadSupportEntry.ArrayByteOffset,
           <<ReadSupportEntry.NumRows, ReadSupportEntry.NumCols>>,
           get_numpy_format(ReadSupportEntry))

\* the resolved ranges of the recorded read_support_array
ReadSupportRange1 == validate_range(result.range1, ReadSupportEntry.NumRows).val
ReadSupportRange2 == validate_range(result.range2, ReadSupportEntry.NumCols).val

\* C21: read_support_array returns, on each axis for itself, the elements from
\* the last one backward when the resolved range of that axis has start -1 and
\* a negative stride, and start, start + stride, ... bounded by stop otherwise,
\* in all four combinations of the two axes.
C21_SupportAxesIndependent ==
    (reader.pc = "open" /\ result.op = "read_support_array" /\ result.exc = NoExc) =>
        result.val = Elements(file.bytes, ReadSupportMap,
                              AxisSelection(ReadSupportEntry.NumRows, ReadSupportRange1),
                              AxisSelection(ReadSupportEntry.NumCols, ReadSupportRange2))

\* a read of a support array with which axes reversed, that returned elements
SupportReadWith(rows_reversed, cols_reversed) ==
    /\ reader.pc = "open" /\ result.op = "read_support_array" /\ result.exc = NoExc
    /\ from_end(ReadSupportRange1) = rows_reversed
    /\ from_end(ReadSupportRange2) = cols_reversed
    /\ Len(result.val) > 0 /\ Len(result.val[1]) > 0

\* a read with the rows alone reversed has returned the two rows of an array
\* last row first, and differs from the same rows read forward
C21_Witness ==
    /\ SupportReadWith(TRUE, FALSE)
    /\ Len(result.val) = 2 /\ result.val[1] # result.val[2]

-----------------------------------------------------------------------------
(* What the specification says of the row ranges of the PVP reads, stated on
   the model. *)

\* the recorded read is a read of PVP rows that returned, and its resolved
\* range runs from the last vector backward
PvpReadFromEnd ==
    /\ reader.pc = "open" /\ result.op \in {"read_pvp_variable", "read_pvp_array"}
    /\ result.exc = NoExc
    /\ from_end(validate_range(result.range1, ReadPvpMap.shape[1]).val)

\* the records of the channel from the last vector backward
RecordsFromEnd ==
    LET rows == BackwardFromLast(ReadPvpMap.shape[1],
                                 validate_range(result.range1, ReadPvpMap.shape[1]).val[3])
    IN  [k \in 1..Len(rows) |-> MemMapElem(file.bytes, ReadPvpMap, rows[k], 0)]

\* C22: read_pvp_variable and read_pvp_array of both readers, given a range
\* with start -1 and a negative stride, return the rows from the last vector
\* backward, not those of an ordinary slice bounded by stop.
C22_PvpReadsHonorReverse ==
    PvpReadFromEnd =>
        IF result.op = "read_pvp_array" THEN result.val = RecordsFromEnd
        ELSE IF result.variable \in FieldNames(ReadPvpMap.dtype)
        THEN result.val = Some(Column(RecordsFromEnd, result.variable))
        ELSE result.val = None

-----------------------------------------------------------------------------
(* What the specification says of the written counters, stated on the model. *)

\* the counters after a call that returned: the counter of one entry raised by
\* the count, every other counter and the header flag as they were
Accounted(out, block, id, count) ==
    out.exc = NoExc =>
        /\ out.ws[block][id] = writing_state[block][id] + count
        /\ \A b \in {"pvp", "signal", "support"} : \A x \in DOMAIN writing_state[b] :
              <<b, x>> # <<block, id>> => out.ws[b][x] = writing_state[b][x]
        /\ DOMAIN out.ws = DOMAIN writing_state
        /\ \A b \in {"pvp", "signal", "support"} : DOMAIN out.ws[b] = DOMAIN writing_state[b]
        /\ out.ws.header = writing_state.header

\* every write the open writer can be called with is accounted for: rows for
\* write_pvp, rows * cols for write_signal and write_support
WritesAccounted ==
    pc = "open" =>
        /\ \A ref \in ChannelRefs, data \in PvpArrays, start \in StartRows :
              Accounted(write_pvp_block(file.bytes, writing_state, ref, data, start),
                        "pvp", The(ChannelOf(ref)).Identifier, data.shape[1])
        /\ \A ref \in ChannelRefs, data \in SignalArrays, start \in SignalStarts :
              Accounted(write_chip(file.bytes, writing_state, data, start, ref),
                        "signal", The(ChannelOf(ref)).Identifier,
                        data.shape[1] * data.shape[2])
        /\ \A ref \in SupportRefs, data \in SupportArrays, start \in SupportStarts :
              Accounted(write_support_block(file.bytes, writing_state, ref, data, start),
                        "support", The(SupportOf(ref)).Identifier,
                        data.shape[1] * data.shape[2])

\* the counters of a writer: one per declared channel and support array
CountersDeclared(meta, ws) ==
    /\ DOMAIN ws.pvp = {meta.Channels[i].Identifier : i \in 1..Len(meta.Channels)}
    /\ DOMAIN ws.signal = DOMAIN ws.pvp
    /\ DOMAIN ws.support = {SupportList(meta)[i].Identifier : i \in 1..Len(SupportList(meta))}

\* a step of the writer: the construction starts every declared counter at 0;
\* a write leaves the closed flag and the header flag as they were; no counter
\* ever decreases
CounterStep ==
    /\ (pc = "new" /\ pc' = "open") =>
          /\ CountersDeclared(cphd_meta', writing_state')
          /\ \A b \in {"pvp", "signal", "support"} : \A x \in DOMAIN writing_state'[b] :
                writing_state'[b][x] = 0
    /\ last'.op \in {"write_pvp", "write_signal", "write_support"} =>
          /\ closed' = closed
          /\ writing_state'.header = writing_state.header
    /\ pc = "open" =>
          \A b \in {"pvp", "signal", "support"} : \A x \in DOMAIN writing_state[b] :
              x \in DOMAIN writing_state'[b] /\ writing_state'[b][x] >= writing_state[b][x]

\* C23: a successful write_pvp adds the number of rows supplied to the PVP
\* counter of its channel, a successful write_signal or write_support adds
\* rows * cols to the counter of its entry, and leaves every other counter, the
\* header flag and the closed flag as they were; the counters start at 0 for
\* every declared identifier and never decrease.
C23_CounterAccounting == [](WritesAccounted) /\ [][CounterStep]_vars

\* a second write to the same channel has returned and the PVP counter of the
\* channel holds the rows of both writes, the other counters still at 0
C23_Witness ==
    /\ pc = "open" /\ last.op = "write_pvp" /\ last.exc = NoExc
    /\ \E x \in DOMAIN writing_state.pvp :
          /\ writing_state.pvp[x] = 2
          /\ \A y \in DOMAIN writing_state.pvp \ {x} : writing_state.pvp[y] = 0
    /\ \A y \in DOMAIN writing_state.signal : writing_state.signal[y] = 0
    /\ \E a \in DOMAIN file.bytes : file.bytes[a] # 0

-----------------------------------------------------------------------------
(* What the specification says of what a close() that returns has found
   written, stated on the model. *)

\* every PVP row, signal pixel and support cell the metadata declares
DeclaredCells ==
    UNION {{<<"pvp", e.Identifier, r, 0>> : r \in 0..(e.NumVectors - 1)}
              \cup {<<"signal", e.Identifier, r, c>> :
                       r \in 0..(e.NumVectors - 1), c \in 0..(e.NumSamples - 1)} :
           e \in Range(cphd_meta.Channels)}
    \cup
    UNION {{<<"support", e.Identifier, r, c>> :
               r \in 0..(e.NumRows - 1), c \in 0..(e.NumCols - 1)} :
           e \in Range(SupportList(cphd_meta))}

\* the first close() of the writer has returned without an error
FirstCloseReturned ==
    pc = "open" /\ last.op = "close" /\ last.exc = NoExc /\ ~last.again

\* C24: when the first close() of a writer returns without an error, every
\* declared PVP row, signal pixel and support cell lies inside the rows or the
\* rectangle of a write call that returned.
C24_ClosedMeansCovered == FirstCloseReturned => DeclaredCells \subseteq covered

-----------------------------------------------------------------------------
(* What the specification says of a writer after close(), stated on the
   model. *)

\* once close() has been called, every write_pvp, write_signal
\* and write_support call is rejected and changes neither the block regions of
\* the file nor a written counter
WritesRejectedAfterClose ==
    (pc = "open" /\ close_called) =>
        /\ \A ref \in ChannelRefs, data \in PvpArrays, start \in StartRows :
              Rejected(write_pvp_block(file.bytes, writing_state, ref, data, start))
        /\ \A ref \in ChannelRefs, data \in SignalArrays, start \in SignalStarts :
              Rejected(write_chip(file.bytes, writing_state, data, start, ref))
        /\ \A ref \in SupportRefs, data \in SupportArrays, start \in SupportStarts :
              Rejected(write_support_block(file.bytes, writing_state, ref, data, start))

\* the closed flag, once set, stays set
ClosedForGood == [][closed => closed']_vars

\* C25: once close() has been called on a writer, whether it returned or
\* raised, the closed state is permanent and every later write_pvp,
\* write_signal or write_support call is rejected, changing neither the block
\* regions of the file nor any written counter.
C25_NoWriteAfterClose == (close_called => closed) /\ WritesRejectedAfterClose

-----------------------------------------------------------------------------
(* What the specification says of the first line of a file, stated on the
   model. *)

\* the first line is the signature, one '/', and a version
WellFormedFirstLine ==
    /\ Len(Split(FirstLine(file), "/")) = 2
    /\ Split(FirstLine(file), "/")[1] = Signature

\* C26: CPHDDetails are made only of a file whose first line is exactly the
\* signature "CPHD", one "/", and a version; a first line with anything else
\* before the "/" ("CPHDX/1.0"), or one that does not split into exactly two
\* parts, is rejected.
C26_SignatureExact == reader.pc = "open" => WellFormedFirstLine

-----------------------------------------------------------------------------
(* What the specification says of what the reads leave alone, stated on the
   model. *)

\* the parsed version, header and metadata tree of a reader, and its channel
\* and support indices
Parsed(rd) == <<rd.cphd_details, rd.channel_map, rd.support_array_map>>

\* the read operations of a reader
ReadOps == {"read_chip", "read_pvp_variable", "read_pvp_array", "read_support_array",
            "read_pvp_block", "read_signal_block", "read_support_block"}

\* C27: after any sequence of reads of an open reader, failed ones included,
\* the parsed version, header, metadata tree, channel index and support index
\* of the reader are those a construction on the file gives.
C27_ReadsLeaveParsedState ==
    reader.pc = "open" => Parsed(reader) = Parsed(CPHDReader_new(PathArg(file)))

\* a read of a 1.0 reader has failed, and the reader has its channel index
C27_Witness ==
    /\ reader.pc = "open" /\ reader.cls = "CPHDReader1_0"
    /\ result.op \in ReadOps /\ result.exc # NoExc
    /\ ~IsNone(reader.channel_map)
    /\ The(reader.cphd_details).cphd_version = Version1_0

====
